---- MODULE Spec2Model ----
(***************************************************************************)
(* Tool-orchestration core of finagentai:                                  *)
(*   - RateLimiter and KiteMCPClient (src/src/kite/mcpclient/              *)
(*     kite_mcp_client.py)                                                 *)
(*   - MasterAgent (src/backend/src/kite/portbot/agent/master_agent.py)    *)
(* Time is counted in ticks of the wall clock read by time.time().         *)
(***************************************************************************)
EXTENDS Integers, Sequences, FiniteSets, TLC

\* ------------------------------------------------------------------ bounds
\* Number of asyncio tasks that may call RateLimiter.acquire concurrently.
NumTasks == 2
\* Last clock value explored.
MaxTime == 4
\* RateLimiter.max_requests (configurable; RateLimiter(max_requests=max_rps)).
MaxRequests == 2
\* RateLimiter.time_window in clock ticks (1.0 s in KiteMCPClient.__init__).
TimeWindow == 2
\* KiteMCPClient.max_retries (configurable; 5 by default).
MaxRetries == 3
\* Longest plan the router returns.
MaxPlanLen == 2
\* max_turns of KiteChatbot._maybe_compress_memory (a parameter; 20 by default).
MemoryBound == 3
\* Number of chat_stream turns explored.
MaxTurns == 2
\* Longest token stream the LLM sends.
MaxTokens == 2
\* KiteMCPClient.retry_delay in seconds (MCP_RETRY_DELAY, "2.0" by default).
RetryDelay == 2

Tasks == 1..NumTasks

VARIABLES
  now,        \* time.time()
  requests,   \* RateLimiter.requests: timestamps of the grants still tracked
  lock,       \* RateLimiter._lock: 0 when free, else the task holding it
  rl_pc,      \* per task: where it is inside acquire()
  rl_wake,    \* per task: the time its asyncio.sleep(sleep_time) ends
  granted,    \* history: the timestamps recorded by the last max_requests + 1 grants
  kc_client,    \* KiteMCPClient._client: "None", "unconnected" or "connected"
  kc_transport, \* KiteMCPClient.transport: "None" or "set"
  headers,      \* KiteMCPClient.headers
  session_file, \* the file at KiteMCPClient.session_file
  c_pc,         \* where the task running KiteMCPClient.call is
  attempt,      \* call: the loop variable `attempt`
  last_error,   \* call: the local last_error
  c_exc,        \* call: the exception `e` being handled
  c_wait,       \* call: the local wait_time
  c_ret,        \* connect(): who awaits the handshake, "try" or "reconnect"
  c_out,        \* what call gave its caller: a returned result or a raised error
  trace,        \* history of one call: its attempts, errors, reconnects, sleeps
  ma_initialized, \* MasterAgent._initialized
  ma_router,      \* MasterAgent._router is not None
  rq_pc,          \* where the task running route_query / execute is
  rq_sel,         \* route_query: the router's selection
  rq_i,           \* route_query: position of the plan's for loop
  rq_steps,       \* route_query: the local list `steps`
  rq_results,     \* route_query: the local list `results`
  rq_out,         \* what route_query gave its caller
  ex_step,        \* execute: agent_name, tool_name and kwargs of the call
  ex_out,         \* what execute gave its caller
  ma_trace,       \* history of one entry-point call: agent.run calls and returns
  memory,      \* KiteChatbot.memory
  narrate,     \* KiteChatbot.narrate
  cs_pc,       \* where the chat_stream generator is
  cs_msg,      \* chat_stream: user_input
  cs_query,    \* chat_stream: search_query
  cs_branch,   \* chat_stream: which `async for token in self._stream_llm` runs
  cs_answer,   \* chat_stream: full_answer
  cs_yielded,  \* history: what the turn has yielded to its consumer
  cs_out,      \* how the turn ended: "end", "raise" or "cancelled"
  cs_mem0,     \* history: memory when the turn started
  cs_base,     \* history: number of entries appended before the turn started
  cs_calls,    \* history: the rewrite, route_query and LLM calls of the turn
  cs_all,      \* history: every entry ever appended to memory
  cs_turns,    \* history: number of turns started
  sess_ops,    \* history: the last two session operations called on the client
  sess_ret,    \* history: what the last restore_session() returned
  sess_raised, \* history: whether the last session operation raised
  sess_pre,    \* history: the client's session state when clear_session() was last called
  shared_session, \* LoginAgent.shared_state["session"], or "absent"
  fin_pc,         \* where the task running finalize_session is
  fin_valid,      \* finalize_session: the local is_valid
  fin_ret,        \* history: "status" of what the last finalize_session returned
  fin_pre,        \* history: shared state and session file when finalize_session started
  fin_calls,      \* history: number of finalize_session calls started
  lg_pc,          \* where the task running LoginAgent._login is
  lg_elapsed,     \* _login: the local elapsed, in check intervals
  lg_ret,         \* history: "status" of what _login returned
  lg_seen,        \* history: whether a check of the poll found is_valid true
  lg_pre,         \* history: shared state and session file when _login started
  vs_pc,          \* where the task running validate_session is
  vs_res,         \* validate_session: the content of the local res
  vs_out,         \* what validate_session gave its caller
  ep_kind,        \* the streaming endpoint serving the current request
  ep_pc,          \* where generate_stream of that request is
  ep_events,      \* history: the events the response has carried so far
  sa_pc,          \* where stream_analysis is
  sa_n,           \* stream_analysis: number of chunks added to full_response
  mk_turns,       \* history: number of market requests started
  mk_memory       \* MEMORY of the market agent: session id -> messages

rlVars == <<now, requests, lock, rl_pc, rl_wake, granted>>
kcVars == <<kc_client, kc_transport, headers, session_file>>
callVars == <<c_pc, attempt, last_error, c_exc, c_wait, c_ret, c_out, trace>>
maVars == <<ma_initialized, ma_router, rq_pc, rq_sel, rq_i, rq_steps, rq_results,
            rq_out, ex_step, ex_out, ma_trace>>
chatVars == <<memory, narrate, cs_pc, cs_msg, cs_query, cs_branch, cs_answer,
              cs_yielded, cs_out, cs_mem0, cs_base, cs_calls, cs_all, cs_turns>>
sessVars == <<sess_ops, sess_ret, sess_raised, sess_pre>>
loginVars == <<shared_session, fin_pc, fin_valid, fin_ret, fin_pre, fin_calls>>
pollVars == <<lg_pc, lg_elapsed, lg_ret, lg_seen, lg_pre>>
probeVars == <<vs_pc, vs_res, vs_out>>
epVars == <<ep_kind, ep_pc, ep_events, sa_pc, sa_n, mk_turns, mk_memory>>
vars == <<rlVars, kcVars, callVars, maVars, chatVars, sessVars, loginVars, pollVars,
          probeVars, epVars>>
\* The state of the components above the gateway client.
restVars == <<maVars, chatVars, sessVars, loginVars, pollVars, probeVars, epVars>>
\* Everything but the RateLimiter's state.
notRL == <<kcVars, callVars, restVars>>
\* Everything but the MasterAgent's state.
notMA == <<rlVars, kcVars, callVars, chatVars, sessVars, loginVars, pollVars,
           probeVars, epVars>>
\* Everything but the KiteChatbot's state.
\* Everything but the KiteChatbot's state and the endpoints'.
belowChat == <<rlVars, kcVars, callVars, maVars, sessVars, loginVars, pollVars,
               probeVars>>
notChat == <<belowChat, epVars>>
\* Everything but the client's session state.
notSess == <<rlVars, callVars, maVars, chatVars, loginVars, pollVars, probeVars,
             epVars>>
\* Everything but the LoginAgent's state and the client's session state.
notLogin == <<rlVars, callVars, maVars, chatVars, sessVars, pollVars, probeVars,
              epVars>>
\* Everything but the LoginAgent's state, the poll's state and the client's
\* session state.
notPoll == <<rlVars, callVars, maVars, chatVars, sessVars, probeVars, epVars>>
\* The state above the gateway client, but for validate_session's.
notProbe == <<maVars, chatVars, sessVars, loginVars, pollVars, epVars>>

\* ------------------------------------------------------------ RateLimiter

RECURSIVE SelectSeqBy(_, _, _)
\* [x for x in s if now - x < w], order kept.
SelectSeqBy(s, n, w) ==
  IF s = <<>> THEN <<>>
  ELSE IF n - Head(s) < w
       THEN <<Head(s)>> \o SelectSeqBy(Tail(s), n, w)
       ELSE SelectSeqBy(Tail(s), n, w)

\* self.requests = [t for t in self.requests if now - t < self.time_window]
Prune(reqs, n) == SelectSeqBy(reqs, n, TimeWindow)

\* A variant of the check that lets one request more through.
UnderLimitOffByOne(reqs) == Len(reqs) <= MaxRequests
\* if len(self.requests) < self.max_requests
UnderLimit(reqs) == Len(reqs) < MaxRequests

\* The grant history with one more grant: only the last max_requests + 1
\* grants are kept, which is all a window of max_requests + 1 grants needs.
Remember(g, n) ==
  IF Len(g) > MaxRequests THEN Append(Tail(g), n) ELSE Append(g, n)

\* A variant of the wait that is measured from the newest request.
SleepTimeFromNewest(reqs, n) == TimeWindow - (n - reqs[Len(reqs)])
\* sleep_time = self.time_window - (now - self.requests[0])
SleepTime(reqs, n) == TimeWindow - (n - reqs[1])

RLInit ==
  /\ now = 0
  /\ requests = <<>>
  /\ lock = 0
  /\ rl_pc = [t \in Tasks |-> "idle"]
  /\ rl_wake = [t \in Tasks |-> 0]
  /\ granted = <<>>

\* acquire() is entered: the task is at the top of `while True`.
AcquireEnter(t) ==
  /\ rl_pc[t] = "idle"
  /\ rl_pc' = [rl_pc EXCEPT ![t] = "enter"]
  /\ UNCHANGED <<now, requests, lock, rl_wake, granted, notRL>>

\* async with self._lock: the lock is taken when it is free.
AcquireLock(t) ==
  /\ rl_pc[t] = "enter"
  /\ lock = 0
  /\ lock' = t
  /\ rl_pc' = [rl_pc EXCEPT ![t] = "locked"]
  /\ UNCHANGED <<now, requests, rl_wake, granted, notRL>>

\* A variant of the with block that spans the sleep: a task that has to
\* wait keeps the lock.
AcquireCheckSleepsLocked(t) ==
  /\ rl_pc[t] = "locked"
  /\ lock = t
  /\ LET pruned == Prune(requests, now) IN
       IF UnderLimit(pruned)
       THEN /\ requests' = Append(pruned, now)
            /\ granted' = Remember(granted, now)
            /\ rl_pc' = [rl_pc EXCEPT ![t] = "granted"]
            /\ UNCHANGED rl_wake
       ELSE /\ requests' = pruned
            /\ UNCHANGED granted
            /\ IF SleepTime(pruned, now) > 0
               THEN /\ rl_pc' = [rl_pc EXCEPT ![t] = "sleep"]
                    /\ rl_wake' = [rl_wake EXCEPT ![t] = now + SleepTime(pruned, now)]
               ELSE /\ rl_pc' = [rl_pc EXCEPT ![t] = "enter"]
                    /\ UNCHANGED rl_wake
  /\ lock' = (IF ~UnderLimit(Prune(requests, now))
                 /\ SleepTime(Prune(requests, now), now) > 0 THEN t ELSE 0)
  /\ UNCHANGED <<now, notRL>>

\* The body of the with block (no await inside): read the clock, prune, then
\* either record the grant and return, or compute sleep_time; the lock is
\* released on leaving the block either way.
AcquireCheck(t) ==
  /\ rl_pc[t] = "locked"
  /\ lock = t
  /\ LET pruned == Prune(requests, now) IN
       IF UnderLimit(pruned)
       THEN /\ requests' = Append(pruned, now)
            /\ granted' = Remember(granted, now)
            /\ rl_pc' = [rl_pc EXCEPT ![t] = "granted"]
            /\ UNCHANGED rl_wake
       ELSE /\ requests' = pruned
            /\ UNCHANGED granted
            /\ IF SleepTime(pruned, now) > 0
               THEN /\ rl_pc' = [rl_pc EXCEPT ![t] = "sleep"]
                    /\ rl_wake' = [rl_wake EXCEPT ![t] = now + SleepTime(pruned, now)]
               ELSE /\ rl_pc' = [rl_pc EXCEPT ![t] = "enter"]
                    /\ UNCHANGED rl_wake
  /\ lock' = 0
  /\ UNCHANGED <<now, notRL>>

\* await asyncio.sleep(sleep_time) returns once sleep_time has elapsed; the
\* task is back at the top of the loop.
AcquireWake(t) ==
  /\ rl_pc[t] = "sleep"
  /\ now >= rl_wake[t]
  /\ rl_pc' = [rl_pc EXCEPT ![t] = "enter"]
  /\ UNCHANGED <<now, requests, lock, rl_wake, granted, notRL>>

\* acquire() has returned to its caller, which may call it again.
AcquireReturn(t) ==
  /\ rl_pc[t] = "granted"
  /\ rl_pc' = [rl_pc EXCEPT ![t] = "idle"]
  /\ UNCHANGED <<now, requests, lock, rl_wake, granted, notRL>>

\* The clock advances.
Tick ==
  /\ now < MaxTime
  /\ now' = now + 1
  /\ UNCHANGED <<requests, lock, rl_pc, rl_wake, granted, notRL>>

\* A task needs the clock to move: it sleeps and its time has not come.
Waiting(t) == rl_pc[t] = "sleep" /\ rl_wake[t] > now

\* acquire() is entered by a caller that arrives within the first MaxTime
\* units of time.
Arrive(t) ==
  /\ now < MaxTime
  /\ AcquireEnter(t)

\* The clock advances: freely during the first MaxTime units of time, and
\* after that for as long as the asyncio.sleep of some task has not elapsed.
Clock ==
  /\ now < MaxTime \/ \E t \in Tasks : Waiting(t)
  /\ now' = now + 1
  /\ UNCHANGED <<requests, lock, rl_pc, rl_wake, granted, notRL>>

\* Time passes for a task in asyncio.sleep.
ClockForSleeper ==
  /\ \E t \in Tasks : Waiting(t)
  /\ Clock

\* ---------------------------------------------------------- KiteMCPClient

\* The task that runs KiteMCPClient.call.
Caller == 1

EmptyMap == [k \in {} |-> ""]
\* {"User-Agent": "KiteInfi-Backend/1.0"}
DefaultHeaders == [k \in {"User-Agent"} |-> "KiteInfi-Backend/1.0"]

\* dict.update: the keys of `saved` override those of `h`.
Update(h, saved) ==
  [k \in DOMAIN h \cup DOMAIN saved |-> IF k \in DOMAIN saved THEN saved[k] ELSE h[k]]

\* The session file: absent, unreadable as JSON, or holding a header map.
NoFile == [exists |-> FALSE, valid |-> FALSE, data |-> EmptyMap]
CorruptFile == [exists |-> TRUE, valid |-> FALSE, data |-> EmptyMap]
FileOf(h) == [exists |-> TRUE, valid |-> TRUE, data |-> h]

\* restore_session() returns True: the file exists, parses, and is non-empty.
RestoreOk(f) == f.exists /\ f.valid /\ f.data # EmptyMap
\* The headers after restore_session().
RestoreSession(h, f) == IF RestoreOk(f) THEN Update(h, f.data) ELSE h

\* An exception: the attempt that threw it, the marker substrings found in
\* str(e).lower(), and type(e).__name__.
NoError == [at |-> -1, msg |-> {}, type |-> "None"]
ErrorShapes ==
  { [msg |-> {"429"}, type |-> "ToolError"],
    [msg |-> {"too many requests", "connection"}, type |-> "ToolError"],
    [msg |-> {}, type |-> "ClosedResourceError"],
    [msg |-> {}, type |-> "ValueError"] }
ErrorAt(n, sh) == [at |-> n, msg |-> sh.msg, type |-> sh.type]
\* ToolError(f"Rate limit exceeded after {self.max_retries} retries. ...")
RateLimitExceeded == [at |-> -1, msg |-> {"rate limit exceeded"}, type |-> "ToolError"]
\* The value call_tool returned in attempt n.
ResultAt(n) == [at |-> n, msg |-> {}, type |-> "CallToolResult"]

TransportWords == {"broken", "connection", "closed", "resource", "anyio"}
TransportTypes ==
  {"ClosedResourceError", "RemoteProtocolError", "EndOfStream", "ConnectionResetError"}

\* "429" in error_msg or "too many requests" in error_msg
IsRateLimit(e) == "429" \in e.msg \/ "too many requests" \in e.msg
\* any(word in error_msg ...) or type(e).__name__ in [...] or isinstance(...)
IsTransport(e) == e.msg \cap TransportWords # {} \/ e.type \in TransportTypes

\* A variant of the classification that tests the transport markers first.
KindTransportFirst(e) ==
  IF IsTransport(e) THEN "transport" ELSE IF IsRateLimit(e) THEN "rate" ELSE "other"
\* The if / elif / else of the except block.
Kind(e) ==
  IF IsRateLimit(e) THEN "rate" ELSE IF IsTransport(e) THEN "transport" ELSE "other"

\* A variant of the backoff that grows linearly.
WaitTimeLinear(a) == RetryDelay * (a + 1)
\* wait_time = self.retry_delay * (2 ** attempt)
WaitTime(a) == RetryDelay * (2 ^ a)

\* A variant of the retry test that allows one retry more.
RetryAllowedOneMore(a) == a < MaxRetries + 1
\* if attempt < self.max_retries
RetryAllowed(a) == a < MaxRetries

Event(ev, n, e) == [ev |-> ev, n |-> n, e |-> e]
NoOutcome == [kind |-> "none", val |-> NoError]

KCInit ==
  /\ kc_client = "None"
  /\ kc_transport = "None"
  /\ headers = DefaultHeaders
  /\ session_file \in {NoFile, CorruptFile, FileOf(DefaultHeaders)}

CallInit ==
  /\ c_pc = "idle"
  /\ attempt = 0
  /\ last_error = NoError
  /\ c_exc = NoError
  /\ c_wait = 0
  /\ c_ret = "try"
  /\ c_out = NoOutcome
  /\ trace = <<>>

\* call() is entered: last_error = None, and the for loop starts at attempt 0.
CallEnter ==
  /\ c_pc \in {"idle", "done"}
  /\ c_pc' = "try"
  /\ attempt' = 0
  /\ last_error' = NoError
  /\ c_exc' = NoError
  /\ c_wait' = 0
  /\ c_ret' = "try"
  /\ c_out' = NoOutcome
  /\ trace' = <<>>
  /\ UNCHANGED <<rlVars, kcVars>>

\* call() is called by a caller that is not modelled further.
CallStart ==
  /\ CallEnter
  /\ UNCHANGED restVars

\* connect() up to its await, for a client that is None: restore_session(),
\* then a fresh transport and client; the handshake (__aenter__) is awaited.
ConnectBody(ret) ==
  /\ headers' = RestoreSession(headers, session_file)
  /\ kc_transport' = "set"
  /\ kc_client' = "unconnected"
  /\ c_ret' = ret
  /\ c_pc' = "handshake"
  /\ UNCHANGED session_file

\* A variant of the try block that connects in every attempt.
CallTryAlwaysConnects ==
  /\ c_pc = "try"
  /\ UNCHANGED restVars
  /\ trace' = Append(trace, Event("attempt", attempt, NoError))
  /\ ConnectBody("try")
  /\ UNCHANGED rlVars
  /\ UNCHANGED <<attempt, last_error, c_exc, c_wait, c_out>>

\* A variant of the try block that asks the limiter on the first attempt only.
CallTryAcquiresOnce ==
  /\ c_pc = "try"
  /\ UNCHANGED restVars
  /\ trace' = Append(trace, Event("attempt", attempt, NoError))
  /\ IF kc_client = "None"
     THEN /\ ConnectBody("try")
          /\ UNCHANGED rlVars
     ELSE /\ c_pc' = IF attempt = 0 THEN "acquire" ELSE "calling"
          /\ rl_pc' = [rl_pc EXCEPT ![Caller] = IF attempt = 0 THEN "enter" ELSE "idle"]
          /\ UNCHANGED <<now, requests, lock, rl_wake, granted, kcVars, c_ret>>
  /\ UNCHANGED <<attempt, last_error, c_exc, c_wait, c_out>>

\* The top of the try block of one attempt: connect when there is no client,
\* else go on to rate_limiter.acquire().
CallTry ==
  /\ c_pc = "try"
  /\ UNCHANGED restVars
  /\ trace' = Append(trace, Event("attempt", attempt, NoError))
  /\ IF kc_client = "None"
     THEN /\ ConnectBody("try")
          /\ UNCHANGED rlVars
     ELSE /\ c_pc' = "acquire"
          /\ rl_pc' = [rl_pc EXCEPT ![Caller] = "enter"]
          /\ UNCHANGED <<now, requests, lock, rl_wake, granted, kcVars, c_ret>>
  /\ UNCHANGED <<attempt, last_error, c_exc, c_wait, c_out>>

\* The handshake completes: connect() returns, to the try block (which goes
\* on to acquire) or to force_reconnect (which returns to the backoff sleep).
HandshakeOk ==
  /\ c_pc = "handshake"
  /\ UNCHANGED restVars
  /\ kc_client' = IF kc_client = "unconnected" THEN "connected" ELSE kc_client
  /\ IF c_ret = "try"
     THEN /\ c_pc' = "acquire"
          /\ rl_pc' = [rl_pc EXCEPT ![Caller] = "enter"]
          /\ UNCHANGED <<trace, now, requests, lock, rl_wake, granted>>
     ELSE /\ c_pc' = "backoff"
          /\ trace' = Append(trace, Event("sleep", c_wait, NoError))
          /\ UNCHANGED rlVars
  /\ UNCHANGED <<kc_transport, headers, session_file, attempt, last_error,
                 c_exc, c_wait, c_ret, c_out>>

\* A variant in which a failed handshake of the reconnect is not caught.
HandshakeFailUncaught(sh) ==
  /\ c_pc = "handshake"
  /\ UNCHANGED restVars
  /\ IF c_ret = "try"
     THEN /\ c_pc' = "except"
          /\ c_exc' = ErrorAt(attempt, sh)
          /\ UNCHANGED <<trace, c_out>>
     ELSE /\ c_pc' = "done"
          /\ c_out' = [kind |-> "raise", val |-> ErrorAt(attempt, sh)]
          /\ trace' = Append(trace, Event("reconnect_err", attempt, NoError))
          /\ UNCHANGED c_exc
  /\ UNCHANGED <<rlVars, kcVars, attempt, last_error, c_wait, c_ret>>
\* The handshake raises: self._client stays assigned.  In the try block the
\* exception reaches `except Exception as e`; inside force_reconnect it is
\* re-raised, caught by call as reconnect_err, and the backoff sleep follows.
HandshakeFail(sh) ==
  /\ c_pc = "handshake"
  /\ UNCHANGED restVars
  /\ IF c_ret = "try"
     THEN /\ c_pc' = "except"
          /\ c_exc' = ErrorAt(attempt, sh)
          /\ UNCHANGED trace
     ELSE /\ c_pc' = "backoff"
          /\ trace' = trace \o <<Event("reconnect_err", attempt, NoError),
                                 Event("sleep", c_wait, NoError)>>
          /\ UNCHANGED c_exc
  /\ UNCHANGED <<rlVars, kcVars, attempt, last_error, c_wait, c_ret, c_out>>

\* AttributeError: 'NoneType' object has no attribute 'call_tool'
NoClientError == [msg |-> {}, type |-> "AttributeError"]

\* acquire() has returned: result = await self._client.call_tool(...) is
\* issued; with self._client None the attribute lookup raises instead.
CallTool ==
  /\ c_pc = "acquire"
  /\ UNCHANGED restVars
  /\ rl_pc[Caller] = "granted"
  /\ rl_pc' = [rl_pc EXCEPT ![Caller] = "idle"]
  /\ IF kc_client = "None"
     THEN /\ c_pc' = "except"
          /\ c_exc' = ErrorAt(attempt, NoClientError)
          /\ UNCHANGED trace
     ELSE /\ c_pc' = "calling"
          /\ trace' = Append(trace, Event("call_tool", attempt, NoError))
          /\ UNCHANGED c_exc
  /\ UNCHANGED <<now, requests, lock, rl_wake, granted, kcVars, attempt,
                 last_error, c_wait, c_ret, c_out>>

\* call_tool returns (only a client whose handshake completed can answer):
\* return result.
ToolOk ==
  /\ c_pc = "calling"
  /\ UNCHANGED restVars
  /\ kc_client = "connected"
  /\ c_out' = [kind |-> "return", val |-> ResultAt(attempt)]
  /\ trace' = Append(trace, Event("ok", attempt, NoError))
  /\ c_pc' = "done"
  /\ UNCHANGED <<rlVars, kcVars, attempt, last_error, c_exc, c_wait, c_ret>>

\* call_tool raises.
ToolFail(sh) ==
  /\ c_pc = "calling"
  /\ UNCHANGED restVars
  /\ c_exc' = ErrorAt(attempt, sh)
  /\ c_pc' = "except"
  /\ UNCHANGED <<rlVars, kcVars, attempt, last_error, c_wait, c_ret, c_out, trace>>

\* if "429" in error_msg or "too many requests" in error_msg: back off and
\* `continue` while retries are left, else raise the typed ToolError.
OnRateLimit(tr) ==
  IF RetryAllowed(attempt)
  THEN /\ c_wait' = WaitTime(attempt)
       /\ trace' = Append(tr, Event("sleep", WaitTime(attempt), NoError))
       /\ c_pc' = "backoff"
       /\ UNCHANGED c_out
  ELSE /\ c_out' = [kind |-> "raise", val |-> RateLimitExceeded]
       /\ trace' = tr
       /\ c_pc' = "done"
       /\ UNCHANGED c_wait

\* A variant of the transport branch that retries without reconnecting.
OnTransportNoReconnect(tr) ==
  IF RetryAllowed(attempt)
  THEN /\ c_wait' = WaitTime(attempt)
       /\ trace' = Append(tr, Event("sleep", WaitTime(attempt), NoError))
       /\ c_pc' = "backoff"
       /\ UNCHANGED c_out
  ELSE /\ c_out' = [kind |-> "raise", val |-> c_exc]
       /\ trace' = tr
       /\ c_pc' = "done"
       /\ UNCHANGED c_wait
\* elif <connection/protocol error>: while retries are left, force_reconnect()
\* and then sleep and `continue`; else a bare `raise` of e.
OnTransport(tr) ==
  IF RetryAllowed(attempt)
  THEN /\ c_wait' = WaitTime(attempt)
       /\ trace' = tr
       /\ c_pc' = "reconnect"
       /\ UNCHANGED c_out
  ELSE /\ c_out' = [kind |-> "raise", val |-> c_exc]
       /\ trace' = tr
       /\ c_pc' = "done"
       /\ UNCHANGED c_wait

\* A variant of the else branch that retries as the rate-limit branch does.
OnOtherRetried(tr) == OnRateLimit(tr)
\* else: a bare `raise` of e, no retry.
OnOther(tr) ==
  /\ c_out' = [kind |-> "raise", val |-> c_exc]
  /\ trace' = tr
  /\ c_pc' = "done"
  /\ UNCHANGED c_wait

\* except Exception as e: last_error = e, then the branch of e's kind.
HandleError ==
  /\ c_pc = "except"
  /\ UNCHANGED restVars
  /\ last_error' = c_exc
  /\ LET k == Kind(c_exc)
         tr == Append(trace, Event("error", attempt, c_exc)) IN
       CASE k = "rate" -> OnRateLimit(tr)
         [] k = "transport" -> OnTransport(tr)
         [] OTHER -> OnOther(tr)
  /\ UNCHANGED <<rlVars, kcVars, attempt, c_exc, c_ret>>

\* force_reconnect(), first half: leave the old client (errors suppressed),
\* reset _client and transport, then await asyncio.sleep(0.1).
ForceReconnectTeardown ==
  /\ c_pc = "reconnect"
  /\ UNCHANGED restVars
  /\ kc_client' = "None"
  /\ kc_transport' = "None"
  /\ trace' = Append(trace, Event("force_reconnect", attempt, NoError))
  /\ c_pc' = "fr_sleep"
  /\ UNCHANGED <<rlVars, headers, session_file, attempt, last_error, c_exc,
                 c_wait, c_ret, c_out>>

\* force_reconnect(), second half: await self.connect().
ForceReconnectConnect ==
  /\ c_pc = "fr_sleep"
  /\ UNCHANGED restVars
  /\ IF kc_client = "None"
     THEN /\ ConnectBody("reconnect")
          /\ UNCHANGED trace
     ELSE /\ c_pc' = "backoff"
          /\ trace' = Append(trace, Event("sleep", c_wait, NoError))
          /\ UNCHANGED <<kcVars, c_ret>>
  /\ UNCHANGED <<rlVars, attempt, last_error, c_exc, c_wait, c_out>>

\* await asyncio.sleep(wait_time) is over; `continue` starts the next attempt.
BackoffDone ==
  /\ c_pc = "backoff"
  /\ UNCHANGED restVars
  /\ attempt' = attempt + 1
  /\ c_pc' = "try"
  /\ UNCHANGED <<rlVars, kcVars, last_error, c_exc, c_wait, c_ret, c_out, trace>>

\* The clock as the calling task meets it. call reads the clock only inside
\* acquire(), and acquire() returns under every advance of the clock, so the
\* steps of call do not depend on when the clock moves: here it moves while
\* the task waits in `await asyncio.sleep(sleep_time)`, which is the schedule
\* that makes the limiter hold the task back.
CallClock ==
  /\ rl_pc[Caller] = "sleep"
  /\ Tick

CallNext ==
  \/ CallStart
  \/ CallTry
  \/ HandshakeOk
  \/ \E sh \in ErrorShapes : HandshakeFail(sh)
  \/ AcquireLock(Caller)
  \/ AcquireCheck(Caller)
  \/ AcquireWake(Caller)
  \/ CallTool
  \/ ToolOk
  \/ \E sh \in ErrorShapes : ToolFail(sh)
  \/ HandleError
  \/ ForceReconnectTeardown
  \/ ForceReconnectConnect
  \/ BackoffDone
  \/ CallClock

\* -------------------------------------- KiteMCPClient.validate_session

\* The items of a result's content: their type and their text.
ContentItems ==
  { [type |-> "text", text |-> "user_name: A"],
    [type |-> "text", text |-> "Please log in to Kite first"],
    [type |-> "text", text |-> ""],
    [type |-> "image", text |-> "please log in"] }
\* How many turns are added to one session's history at most.
MaxAdds == 5
\* How many items a result's content holds at most.
MaxContent == 2
Contents == UNION {[1..n -> ContentItems] : n \in 0..MaxContent}

\* str.lower() on the texts above.
Lower(t) == IF t = "Please log in to Kite first" THEN "please log in to kite first" ELSE t
\* "please log in" in t
HasPleaseLogIn(t) == t \in {"please log in", "please log in to kite first"}

\* _collect_text_chunks: the non-empty texts of the items of type "text".
CollectTextChunks(content) ==
  SelectSeq(content, LAMBDA item : item.type = "text" /\ item.text # "")
\* "please log in" in raw_text.lower(), raw_text being the chunks joined.
Unauthenticated(content) ==
  \E i \in DOMAIN CollectTextChunks(content) :
    HasPleaseLogIn(Lower(CollectTextChunks(content)[i].text))

\* What validate_session gives its caller.
NoVerdict == [kind |-> "none", val |-> FALSE]
Returned(b) == [kind |-> "return", val |-> b]

\* A variant of validate_session that swallows transport errors only.
VerdictOnRaiseTransportOnly(e) ==
  IF IsTransport(e) THEN Returned(FALSE) ELSE [kind |-> "raise", val |-> FALSE]
\* except Exception: return False
VerdictOnRaise(e) == Returned(FALSE)

ProbeIdle ==
  /\ vs_pc = "idle"
  /\ vs_res = <<>>
  /\ vs_out = NoVerdict

\* validate_session() is called and awaits self.call("get_profile", {}).
ValidateSession ==
  /\ vs_pc = "idle"
  /\ CallEnter
  /\ vs_pc' = "call"
  /\ UNCHANGED <<vs_res, vs_out, notProbe>>

\* call has returned or raised: the text of the result decides, or the
\* except clause does.
ValidateSessionEnds ==
  /\ vs_pc = "call"
  /\ c_pc = "done"
  /\ vs_pc' = "done"
  /\ IF c_out.kind = "raise"
       THEN /\ vs_out' = VerdictOnRaise(c_out.val)
            /\ UNCHANGED vs_res
       ELSE \E content \in Contents :
              /\ vs_res' = content
              /\ vs_out' = Returned(~Unauthenticated(content))
  /\ UNCHANGED <<rlVars, kcVars, callVars, notProbe>>

ProbeNext ==
  \/ ValidateSession
  \/ ValidateSessionEnds
  \/ CallTry
  \/ HandshakeOk
  \/ \E sh \in ErrorShapes : HandshakeFail(sh)
  \/ AcquireLock(Caller)
  \/ AcquireCheck(Caller)
  \/ AcquireWake(Caller)
  \/ CallTool
  \/ ToolOk
  \/ \E sh \in ErrorShapes : ToolFail(sh)
  \/ HandleError
  \/ ForceReconnectTeardown
  \/ ForceReconnectConnect
  \/ BackoffDone
  \/ CallClock

\* ------------------------------------------- KiteMCPClient: the session

\* Header maps a client may hold: the baseline, or the baseline with a
\* credential.
WithAuth(v) == [k \in {"User-Agent", "Authorization"} |->
                  IF k = "User-Agent" THEN "KiteInfi-Backend/1.0" ELSE v]
HeaderMaps == {DefaultHeaders, WithAuth("A"), WithAuth("B")}

\* The part of the client the session operations read and write.
SessState(h, c, t, f) == [headers |-> h, client |-> c, transport |-> t, file |-> f]
Cur == SessState(headers, kc_client, kc_transport, session_file)

\* save_session(): nothing with empty headers, else json.dump(self.headers, f).
SaveOp(st) ==
  IF st.headers = EmptyMap THEN st ELSE [st EXCEPT !.file = FileOf(st.headers)]
\* restore_session(): self.headers.update(saved_headers) when the file loads.
RestoreOp(st) == [st EXCEPT !.headers = RestoreSession(st.headers, st.file)]
\* A variant of clear_session() that leaves the session file alone.
ClearOpKeepsFile(st, deleted) ==
  SessState(DefaultHeaders, "None", "None", st.file)
\* clear_session(): baseline headers, no client, no transport, and the file
\* removed when it exists; `deleted` tells whether os.remove succeeded.
ClearOp(st, deleted) ==
  SessState(DefaultHeaders, "None", "None",
            IF st.file.exists /\ deleted THEN NoFile ELSE st.file)
\* A variant of the operations without their try blocks: json.load fails on
\* a file that does not parse.
RaisesWithoutTry(op, st) == op = "restore" /\ st.file.exists /\ ~st.file.valid
\* Whether an operation raises: each body is one try block whose
\* `except Exception` only prints.
Raises(op, st) == FALSE

\* The last two operations, with one more.
Ops2(ops, op) == IF Len(ops) = 2 THEN <<ops[2], op>> ELSE Append(ops, op)

SessIdle ==
  /\ sess_ops = <<>>
  /\ sess_ret = FALSE
  /\ sess_raised = FALSE
  /\ sess_pre = SessState(DefaultHeaders, "None", "None", NoFile)

\* Any state of the client and of its session file.
SessKCInit ==
  /\ headers \in HeaderMaps
  /\ kc_client \in {"None", "connected"}
  /\ kc_transport = IF kc_client = "None" THEN "None" ELSE "set"
  /\ session_file \in {NoFile, CorruptFile, FileOf(EmptyMap)} \cup {FileOf(h) : h \in HeaderMaps}

\* The client's session state becomes st.
Becomes(st) ==
  /\ headers' = st.headers
  /\ kc_client' = st.client
  /\ kc_transport' = st.transport
  /\ session_file' = st.file

SaveSession ==
  /\ Becomes(SaveOp(Cur))
  /\ sess_ops' = Ops2(sess_ops, "save")
  /\ sess_raised' = Raises("save", Cur)
  /\ UNCHANGED <<sess_ret, sess_pre, notSess>>

RestoreSessionCall ==
  /\ Becomes(RestoreOp(Cur))
  /\ sess_ops' = Ops2(sess_ops, "restore")
  /\ sess_ret' = RestoreOk(session_file)
  /\ sess_raised' = Raises("restore", Cur)
  /\ UNCHANGED <<sess_pre, notSess>>

ClearSession ==
  /\ Becomes(ClearOp(Cur, TRUE))
  /\ sess_ops' = Ops2(sess_ops, "clear")
  /\ sess_pre' = Cur
  /\ sess_raised' = Raises("clear", Cur)
  /\ UNCHANGED <<sess_ret, notSess>>

\* clear_session() when os.remove raises: the except clause prints, and the
\* file stays.
ClearSessionRemoveFails ==
  /\ session_file.exists
  /\ Becomes(ClearOp(Cur, FALSE))
  /\ sess_ops' = Ops2(sess_ops, "clear")
  /\ sess_pre' = Cur
  /\ sess_raised' = Raises("clear", Cur)
  /\ UNCHANGED <<sess_ret, notSess>>

\* call() is suspended at one of its awaits: the handshake, the limiter's
\* sleep, the request, the pause of force_reconnect, or the backoff sleep.
CallSuspended ==
  \/ c_pc \in {"handshake", "calling", "fr_sleep", "backoff"}
  \/ c_pc = "acquire" /\ rl_pc[Caller] = "sleep"

\* connect_portfolio / disconnect_portfolio run clear_session() on the shared
\* client while a call is suspended.
ClearWhileSuspended ==
  /\ CallSuspended
  /\ ClearSession

SessNext ==
  \/ SaveSession
  \/ RestoreSessionCall
  \/ ClearSession

SessIONext ==
  \/ SaveSession
  \/ RestoreSessionCall
  \/ ClearSession
  \/ ClearSessionRemoveFails

\* ------------------------------------------------------------- LoginAgent

\* How many times the login confirmation is asked for.
MaxConfirms == 2

\* What validate_session() meets: a profile (True), a "please log in" text
\* (False), or an exception from call (False).
ProbeAnswers == {"profile", "please_log_in", "raised"}

\* The client handle call leaves behind: an answer came over a connected
\* client; after an exception the handle is whatever connect or
\* force_reconnect left.
ClientAfterProbe(answer) ==
  IF answer = "raised" THEN {"None", "unconnected", "connected"} ELSE {"connected"}

\* getattr(self.kite_client._client, "session", {}): {} without a client;
\* with one, what the gateway library's attribute gives, a session object or
\* nothing (the attribute is missing, empty, or reading it raises).
SessionAttr(client) ==
  IF client = "None" THEN {"empty"} ELSE {"empty", "ClientSession"}

LoginIdle ==
  /\ shared_session = "absent"
  /\ fin_pc = "idle"
  /\ fin_valid = FALSE
  /\ fin_ret = "none"
  /\ fin_pre = [shared |-> "absent", file |-> NoFile]
  /\ fin_calls = 0

\* finalize_session() is called and awaits validate_session().
FinalizeSession ==
  /\ fin_pc = "idle"
  /\ fin_calls < MaxConfirms
  /\ fin_pc' = "probing"
  /\ fin_valid' = FALSE
  /\ fin_ret' = "none"
  /\ fin_pre' = [shared |-> shared_session, file |-> session_file]
  /\ fin_calls' = fin_calls + 1
  /\ UNCHANGED <<shared_session, kcVars, notLogin>>

\* validate_session() returns: call("get_profile") connected the client if it
\* had none (connect restores the headers from disk first), and its answer
\* or exception gives is_valid.
ValidateSessionReturns ==
  /\ fin_pc = "probing"
  /\ \E answer \in ProbeAnswers : \E c \in ClientAfterProbe(answer) :
       /\ fin_valid' = (answer = "profile")
       /\ kc_client' = c
       /\ kc_transport' = IF c = "None" THEN "None" ELSE "set"
  /\ headers' = IF kc_client = "None" THEN RestoreOp(Cur).headers ELSE headers
  /\ fin_pc' = "probed"
  /\ UNCHANGED <<session_file, shared_session, fin_ret, fin_pre, fin_calls, notLogin>>

\* The rest of finalize_session(), without an await: the session object is
\* read from the client, and `if is_valid or session_obj` decides.
FinalizeReturns ==
  /\ fin_pc = "probed"
  /\ \E session_obj \in SessionAttr(kc_client) :
       IF fin_valid \/ session_obj # "empty"
         THEN /\ shared_session' = session_obj
              /\ Becomes(SaveOp(Cur))
              /\ fin_ret' = "success"
         ELSE /\ fin_ret' = "error"
              /\ UNCHANGED <<shared_session, kcVars>>
  /\ fin_pc' = "idle"
  /\ UNCHANGED <<fin_valid, fin_pre, fin_calls, notLogin>>

LoginNext ==
  \/ FinalizeSession
  \/ ValidateSessionReturns
  \/ FinalizeReturns

\* ----------------------------------------------------- LoginAgent._login

\* timeout / check_interval of the poll (300 s in steps of 0.1 s), scaled.
PollChecks == 3

\* What get_login_url() meets: a result with a URL, a result without one,
\* or an exception from call (None).
UrlAnswers == {"url", "no_url", "raised"}

\* The client handle call("login") leaves behind.
ClientAfterUrl(answer) ==
  IF answer = "raised" THEN {"None", "unconnected", "connected"} ELSE {"connected"}

\* getattr(self.kite_client._client, "session", {}) in the poll: besides the
\* values of SessionAttr, a mapping that holds an access_token.
PollSessionAttr(client) ==
  IF client = "None" THEN {"empty"} ELSE {"empty", "ClientSession", "TokenDict"}

\* bool(session_obj and session_obj.get("access_token")); on an object
\* without .get the AttributeError is swallowed and the loop goes on.
PollSessionValid(session_obj) == session_obj = "TokenDict"

\* A variant of the loop that gives up one check early.
PollOverEarly(elapsed) == elapsed + 1 >= PollChecks
\* `while elapsed < timeout` is over.
PollOver(elapsed) == elapsed >= PollChecks

PollIdle ==
  /\ lg_pc = "idle"
  /\ lg_elapsed = 0
  /\ lg_ret = "none"
  /\ lg_seen = FALSE
  /\ lg_pre = [shared |-> "absent", file |-> NoFile]

\* _login() is called and awaits get_login_url().
LoginStart ==
  /\ lg_pc = "idle"
  /\ lg_ret = "none"
  /\ lg_pc' = "url"
  /\ lg_pre' = [shared |-> shared_session, file |-> session_file]
  /\ UNCHANGED <<lg_elapsed, lg_ret, lg_seen, kcVars, loginVars, notPoll>>

\* get_login_url() returns: without a URL _login returns the error, with one
\* it opens the browser and starts the poll.
LoginUrlReturns ==
  /\ lg_pc = "url"
  /\ \E answer \in UrlAnswers : \E c \in ClientAfterUrl(answer) :
       /\ kc_client' = c
       /\ kc_transport' = IF c = "None" THEN "None" ELSE "set"
       /\ IF answer = "url"
            THEN lg_pc' = "sleep" /\ UNCHANGED lg_ret
            ELSE lg_pc' = "done" /\ lg_ret' = "error"
  /\ headers' = IF kc_client = "None" THEN RestoreOp(Cur).headers ELSE headers
  /\ UNCHANGED <<session_file, lg_elapsed, lg_seen, lg_pre, loginVars, notPoll>>

\* asyncio.sleep(check_interval) ends; elapsed += check_interval, and the
\* check awaits validate_session().
PollSleepEnds ==
  /\ lg_pc = "sleep"
  /\ lg_elapsed' = lg_elapsed + 1
  /\ lg_pc' = "check"
  /\ UNCHANGED <<lg_ret, lg_seen, lg_pre, kcVars, loginVars, notPoll>>

\* validate_session() returns in the poll; the rest of the iteration and
\* what follows the loop run without an await: the second check on the
\* session object, the break, `if elapsed >= timeout` and the call of
\* finalize_session().
PollCheck ==
  /\ lg_pc = "check"
  /\ \E answer \in ProbeAnswers : \E c \in ClientAfterProbe(answer) :
     \E session_obj \in PollSessionAttr(c) :
       LET is_valid == answer = "profile" \/ PollSessionValid(session_obj)
       IN  /\ kc_client' = c
           /\ kc_transport' = IF c = "None" THEN "None" ELSE "set"
           /\ lg_seen' = (lg_seen \/ is_valid)
           /\ IF ~is_valid /\ ~PollOver(lg_elapsed)
                THEN /\ lg_pc' = "sleep"
                     /\ UNCHANGED <<lg_ret, loginVars>>
                ELSE IF lg_elapsed >= PollChecks
                  THEN /\ lg_pc' = "done"
                       /\ lg_ret' = "timeout"
                       /\ UNCHANGED loginVars
                  ELSE /\ lg_pc' = "finalize"
                       /\ fin_pc' = "probing"
                       /\ fin_valid' = FALSE
                       /\ fin_ret' = "none"
                       /\ fin_pre' = [shared |-> shared_session, file |-> session_file]
                       /\ fin_calls' = fin_calls + 1
                       /\ UNCHANGED <<lg_ret, shared_session>>
  /\ headers' = IF kc_client = "None" THEN RestoreOp(Cur).headers ELSE headers
  /\ UNCHANGED <<session_file, lg_elapsed, lg_pre, notPoll>>

\* finalize_session() has returned to _login, which returns its result.
LoginReturns ==
  /\ lg_pc = "finalize"
  /\ fin_pc = "idle"
  /\ fin_ret # "none"
  /\ lg_pc' = "done"
  /\ lg_ret' = fin_ret
  /\ UNCHANGED <<lg_elapsed, lg_seen, lg_pre, kcVars, loginVars, notPoll>>

PollNext ==
  \/ LoginStart
  \/ LoginUrlReturns
  \/ PollSleepEnds
  \/ PollCheck
  \/ ValidateSessionReturns
  \/ FinalizeReturns
  \/ LoginReturns

\* ------------------------------------------------------------ MasterAgent

\* self.agents after __aenter__, each with its declared `tools` (name and the
\* keys of "parameters"); the agents whose source is at hand are modelled.
AgentTools ==
  [a \in {"login", "market_analysis"} |->
     IF a = "login"
     THEN <<[name |-> "login", parameters |-> {}]>>
     ELSE <<[name |-> "analyze_stock", parameters |-> {"symbol", "context"}],
            [name |-> "get_market_news", parameters |-> {"query"}],
            [name |-> "research_topic", parameters |-> {"query"}]>>]

\* self._catalog: _build_catalog() over self.agents, sorted by (agent, tool).
Catalog ==
  <<[agent |-> "login", tool |-> "login", parameters |-> {}],
    [agent |-> "market_analysis", tool |-> "analyze_stock",
     parameters |-> {"symbol", "context"}],
    [agent |-> "market_analysis", tool |-> "get_market_news", parameters |-> {"query"}],
    [agent |-> "market_analysis", tool |-> "research_topic", parameters |-> {"query"}]>>

\* any(t.get("name") == tool_name for t in getattr(agent_obj, "tools", []))
HasTool(a, t) == \E i \in DOMAIN AgentTools[a] : AgentTools[a][i].name = t

\* A dict the router hands over: the keys it has and their values.  A
\* selection may carry agent/tool/arguments and a plan; a plan step carries
\* agent/tool/arguments.
Dict(keys, a, t, args, plan) ==
  [keys |-> keys, agent |-> a, tool |-> t, arguments |-> args, plan |-> plan]
\* d.get("agent"), d.get("tool"): "" stands for None.
GetAgent(d) == IF "agent" \in d.keys THEN d.agent ELSE ""
GetTool(d) == IF "tool" \in d.keys THEN d.tool ELSE ""
\* d.get("arguments", {}) or {}
GetArguments(d) == IF "arguments" \in d.keys THEN d.arguments ELSE EmptyMap

ArgMaps ==
  { EmptyMap,
    [k \in {"bogus"} |-> "x"],
    [k \in {"symbol", "bogus"} |-> IF k = "symbol" THEN "TCS" ELSE "x"] }
\* The steps a router may name: catalog entries with declared and undeclared
\* arguments, an unknown agent, a tool its agent does not declare, and steps
\* that lack a key.
RouterSteps ==
  { Dict({"agent", "tool", "arguments"}, c.agent, c.tool, args, <<>>) :
      c \in {Catalog[1], Catalog[2]}, args \in ArgMaps }
  \cup { Dict({"agent", "tool", "arguments"}, "nobody", "login", EmptyMap, <<>>),
         Dict({"agent", "tool", "arguments"}, "login", "analyze_stock", EmptyMap, <<>>),
         Dict({"tool", "arguments"}, "", "login", EmptyMap, <<>>),
         Dict({"agent", "arguments"}, "login", "", EmptyMap, <<>>),
         Dict({"agent", "tool"}, "market_analysis", "analyze_stock", EmptyMap, <<>>) }
RECURSIVE SeqsUpTo(_, _)
SeqsUpTo(S, n) ==
  IF n = 0 THEN {<<>>}
  ELSE LET shorter == SeqsUpTo(S, n - 1) IN
         shorter \cup {Append(q, x) : q \in {r \in shorter : Len(r) = n - 1}, x \in S}
\* What self._router.route(user_query) may return: None, one step, or a plan.
NoSelection == Dict({}, "", "", EmptyMap, <<>>)
RouterSelections ==
  {NoSelection} \cup RouterSteps
  \cup {Dict({"plan"}, "", "", EmptyMap, p) : p \in SeqsUpTo(RouterSteps, MaxPlanLen)}

\* A tool result dict: the keys it has and their values.
Result(keys, status, message, summary, data) ==
  [keys |-> keys, status |-> status, message |-> message, summary |-> summary,
   data |-> data]
NoResult == Result({}, "", "", "", "")
\* {"status": "error", "message": msg}
ErrorResult(msg) == Result({"status", "message"}, "error", msg, "", "")
\* What agent.run may return.
RunResults ==
  { Result({"status", "summary", "data"}, "success", "", "S", "D"),
    Result({"status", "message", "data", "session"}, "success", "ok", "", "D"),
    Result({"status", "message"}, "error", "Please log in", "", "") }
\* res.get("status"), res.get("message"): "None" and "" stand for None.
GetStatus(res) == IF "status" \in res.keys THEN res.status ELSE "None"
GetMessage(res) == IF "message" \in res.keys THEN res.message ELSE ""

\* A variant of the compaction that passes data on next to a summary.
CompactKeepsData(res) ==
  Result({"status"} \cup (res.keys \cap {"message", "summary", "data"}),
         GetStatus(res),
         GetMessage(res),
         IF "summary" \in res.keys THEN res.summary ELSE "",
         IF "data" \in res.keys THEN res.data ELSE "")
\* _compact_result: status, message when present, summary else data.
CompactResult(res) ==
  Result({"status"} \cup (res.keys \cap {"message"})
           \cup (IF "summary" \in res.keys THEN {"summary"} ELSE res.keys \cap {"data"}),
         GetStatus(res),
         GetMessage(res),
         IF "summary" \in res.keys THEN res.summary ELSE "",
         IF "summary" \notin res.keys /\ "data" \in res.keys THEN res.data ELSE "")

Step(a, t, args) == [agent |-> a, tool |-> t, arguments |-> args]
NoStep == Step("", "", EmptyMap)

\* A variant of the pruning that keeps every argument.
PruneNothing(args, params) == args
\* for k in list(args.keys()): if k not in params: args.pop(k, None)
PruneArgs(args, params) == [k \in DOMAIN args \cap params |-> args[k]]

\* A variant of the catalog lookup that compares the tool only.
MatchesByTool(step) == {i \in DOMAIN Catalog : Catalog[i].tool = step.tool}
\* The catalog items a step matches; the loop of _is_valid_selection returns at
\* the first of them.
Matches(step) ==
  {i \in DOMAIN Catalog : Catalog[i].agent = step.agent /\ Catalog[i].tool = step.tool}
FirstMatch(step) == CHOOSE i \in Matches(step) : \A j \in Matches(step) : i <= j
\* _is_valid_selection(sel): its return value ...
IsValidSelection(step) == step.agent # "" /\ step.tool # "" /\ Matches(step) # {}
\* ... and sel after it returned True (sel["arguments"] = args, pruned).
Validated(step) ==
  [step EXCEPT !.arguments = PruneArgs(step.arguments, Catalog[FirstMatch(step)].parameters)]

\* The early returns of execute: the message of the error result, "" when the
\* call goes on to agent.run.
Refusal(step) ==
  IF ~ma_initialized THEN "MasterAgent not initialized"
  ELSE IF step.agent \notin DOMAIN AgentTools THEN "Agent not found"
  ELSE IF ~HasTool(step.agent, step.tool) THEN "Tool not found"
  ELSE ""

Outcome(kind, res) == [kind |-> kind, res |-> res]
\* What route_query gives back: a dict with status, message and, when it has
\* "data", the steps and results lists; or an exception.
RQReturn(status, message, hasData, steps, results) ==
  [kind |-> "return", status |-> status, message |-> message, hasData |-> hasData,
   steps |-> steps, results |-> results]
RQRaise(exc) ==
  [kind |-> "raise", status |-> "", message |-> exc, hasData |-> FALSE,
   steps |-> <<>>, results |-> <<>>]
RQNone ==
  [kind |-> "none", status |-> "", message |-> "", hasData |-> FALSE,
   steps |-> <<>>, results |-> <<>>]
MAEvent(ev, step, orig, res) == [ev |-> ev, step |-> step, orig |-> orig, res |-> res]

\* A MasterAgent before __aenter__ (no agents, no router), or after it with
\* the router enabled or disabled (ROUTER_ENABLED).
MAInit ==
  /\ ma_initialized \in BOOLEAN
  /\ ma_router \in BOOLEAN
  /\ ma_router => ma_initialized
  /\ rq_pc = "idle"
  /\ rq_sel = NoSelection
  /\ rq_i = 0
  /\ rq_steps = <<>>
  /\ rq_results = <<>>
  /\ rq_out = RQNone
  /\ ex_step = NoStep
  /\ ex_out = Outcome("none", NoResult)
  /\ ma_trace = <<>>

\* execute(agent_name, tool_name, **kwargs) up to its await: an early return
\* with an error result, or agent.run(tool_name=tool_name, **kwargs) is called.
\* `orig` is the arguments as the router gave them, `tr` the history so far.
ExecuteEntry(step, orig, tr, runPc, retPc) ==
  /\ ex_step' = step
  /\ IF Refusal(step) # ""
     THEN /\ ex_out' = Outcome("return", ErrorResult(Refusal(step)))
          /\ rq_pc' = retPc
          /\ ma_trace' = tr
     ELSE /\ ex_out' = Outcome("none", NoResult)
          /\ rq_pc' = runPc
          /\ ma_trace' = Append(tr, MAEvent("run", step, orig, NoResult))

\* route_query is entered: "Router disabled" without a router, else the
\* router is awaited.
RouteQueryStart ==
  /\ rq_pc \in {"idle", "done"}
  /\ rq_sel' = NoSelection
  /\ rq_i' = 0
  /\ rq_steps' = <<>>
  /\ rq_results' = <<>>
  /\ ex_step' = NoStep
  /\ ex_out' = Outcome("none", NoResult)
  /\ ma_trace' = <<>>
  /\ IF ~ma_router
     THEN /\ rq_out' = RQReturn("error", "Router disabled", FALSE, <<>>, <<>>)
          /\ rq_pc' = "done"
     ELSE /\ rq_out' = RQNone
          /\ rq_pc' = "routing"
  /\ UNCHANGED <<ma_initialized, ma_router, notMA>>

\* selection = await self._router.route(user_query)
RouterReturns(sel) ==
  /\ rq_pc = "routing"
  /\ rq_sel' = sel
  /\ rq_pc' = "selected"
  /\ UNCHANGED <<ma_initialized, ma_router, rq_i, rq_steps, rq_results, rq_out,
                 ex_step, ex_out, ma_trace, notMA>>

\* if selection and selection.get("agent") and selection.get("tool")
IsSingle(sel) == GetAgent(sel) # "" /\ GetTool(sel) # ""
SingleOf(sel) == Step(GetAgent(sel), GetTool(sel), GetArguments(sel))
\* if selection and isinstance(selection.get("plan"), list)
IsPlan(sel) == "plan" \in sel.keys

\* The single-step branch with a valid step: execute is called with it.
SingleStep ==
  /\ rq_pc = "selected"
  /\ IsSingle(rq_sel)
  /\ IsValidSelection(SingleOf(rq_sel))
  /\ rq_steps' = <<Validated(SingleOf(rq_sel))>>
  /\ ExecuteEntry(Validated(SingleOf(rq_sel)), GetArguments(rq_sel), ma_trace,
                  "single_run", "single_ret")
  /\ UNCHANGED <<ma_initialized, ma_router, rq_sel, rq_i, rq_results, rq_out, notMA>>

\* res = await self.execute(...) is back: the single-step result is returned.
SingleFinish ==
  /\ rq_pc = "single_ret"
  /\ rq_out' = RQReturn(GetStatus(ex_out.res), GetMessage(ex_out.res), TRUE,
                        rq_steps, <<CompactResult(ex_out.res)>>)
  /\ rq_results' = <<CompactResult(ex_out.res)>>
  /\ rq_pc' = "done"
  /\ UNCHANGED <<ma_initialized, ma_router, rq_sel, rq_i, rq_steps, ex_step, ex_out,
                 ma_trace, notMA>>

\* The multi-step branch is entered: steps = [], results = [].
PlanBegin ==
  /\ rq_pc = "selected"
  /\ ~(IsSingle(rq_sel) /\ IsValidSelection(SingleOf(rq_sel)))
  /\ IsPlan(rq_sel)
  /\ rq_i' = 1
  /\ rq_steps' = <<>>
  /\ rq_results' = <<>>
  /\ rq_pc' = "plan_loop"
  /\ UNCHANGED <<ma_initialized, ma_router, rq_sel, rq_out, ex_step, ex_out,
                 ma_trace, notMA>>

\* Neither branch applies: the guidance error.
NoMatch ==
  /\ rq_pc = "selected"
  /\ ~(IsSingle(rq_sel) /\ IsValidSelection(SingleOf(rq_sel)))
  /\ ~IsPlan(rq_sel)
  /\ rq_out' = RQReturn("error", "I couldn't map that to a portfolio tool", FALSE,
                        <<>>, <<>>)
  /\ rq_pc' = "done"
  /\ UNCHANGED <<ma_initialized, ma_router, rq_sel, rq_i, rq_steps, rq_results,
                 ex_step, ex_out, ma_trace, notMA>>

\* One iteration of `for s in selection["plan"]` up to its await: s["agent"]
\* and s["tool"] raise KeyError when the key is missing; an invalid step returns
\* the error; a valid one is appended to steps and execute is called.
PlanStep ==
  /\ rq_pc = "plan_loop"
  /\ rq_i <= Len(rq_sel.plan)
  /\ LET s == rq_sel.plan[rq_i]
         step == Step(GetAgent(s), GetTool(s), GetArguments(s)) IN
       IF "agent" \notin s.keys \/ "tool" \notin s.keys
       THEN /\ rq_out' = RQRaise("KeyError")
            /\ rq_pc' = "done"
            /\ UNCHANGED <<rq_steps, ex_step, ex_out, ma_trace>>
       ELSE IF ~IsValidSelection(step)
       THEN /\ rq_out' = RQReturn("error", "Router produced invalid step.", FALSE,
                                  <<>>, <<>>)
            /\ rq_pc' = "done"
            /\ UNCHANGED <<rq_steps, ex_step, ex_out, ma_trace>>
       ELSE /\ rq_steps' = Append(rq_steps, Validated(step))
            /\ ExecuteEntry(Validated(step), GetArguments(s), ma_trace,
                            "plan_run", "plan_ret")
            /\ UNCHANGED rq_out
  /\ UNCHANGED <<ma_initialized, ma_router, rq_sel, rq_i, rq_results, notMA>>

\* A variant that puts the newest result first.
PlanStepFinishPrepend ==
  /\ rq_pc = "plan_ret"
  /\ rq_results' = <<CompactResult(ex_out.res)>> \o rq_results
  /\ rq_i' = rq_i + 1
  /\ rq_pc' = "plan_loop"
  /\ UNCHANGED <<ma_initialized, ma_router, rq_sel, rq_steps, rq_out, ex_step, ex_out,
                 ma_trace, notMA>>
\* r = await self.execute(...) is back: results.append(_compact_result(r)),
\* and the loop goes on.
PlanStepFinish ==
  /\ rq_pc = "plan_ret"
  /\ rq_results' = Append(rq_results, CompactResult(ex_out.res))
  /\ rq_i' = rq_i + 1
  /\ rq_pc' = "plan_loop"
  /\ UNCHANGED <<ma_initialized, ma_router, rq_sel, rq_steps, rq_out, ex_step, ex_out,
                 ma_trace, notMA>>

\* The loop is over: {"status": "success", "data": {steps, results}}.
PlanDone ==
  /\ rq_pc = "plan_loop"
  /\ rq_i > Len(rq_sel.plan)
  /\ rq_out' = RQReturn("success", "", TRUE, rq_steps, rq_results)
  /\ rq_pc' = "done"
  /\ UNCHANGED <<ma_initialized, ma_router, rq_sel, rq_i, rq_steps, rq_results,
                 ex_step, ex_out, ma_trace, notMA>>

RetPc(pc) ==
  CASE pc = "single_run" -> "single_ret"
    [] pc = "plan_run" -> "plan_ret"
    [] OTHER -> "done"

\* result = await agent.run(...) returns: execute returns it.
RunReturns(res) ==
  /\ rq_pc \in {"single_run", "plan_run", "direct_run"}
  /\ ex_out' = Outcome("return", res)
  /\ ma_trace' = Append(ma_trace, MAEvent("ret", ex_step, ex_step.arguments, res))
  /\ rq_pc' = RetPc(rq_pc)
  /\ UNCHANGED <<ma_initialized, ma_router, rq_sel, rq_i, rq_steps, rq_results,
                 rq_out, ex_step, notMA>>

\* A variant of execute without its except clause.
RunRaisesUncaught(msg) ==
  /\ rq_pc \in {"single_run", "plan_run", "direct_run"}
  /\ ex_out' = Outcome("raise", ErrorResult(msg))
  /\ ma_trace' = Append(ma_trace, MAEvent("raise", ex_step, ex_step.arguments, NoResult))
  /\ rq_pc' = RetPc(rq_pc)
  /\ UNCHANGED <<ma_initialized, ma_router, rq_sel, rq_i, rq_steps, rq_results,
                 rq_out, ex_step, notMA>>
\* agent.run raises: except Exception as e returns
\* {"status": "error", "message": str(e)}.
RunRaises(msg) ==
  /\ rq_pc \in {"single_run", "plan_run", "direct_run"}
  /\ ex_out' = Outcome("return", ErrorResult(msg))
  /\ ma_trace' = Append(ma_trace, MAEvent("raise", ex_step, ex_step.arguments, NoResult))
  /\ rq_pc' = RetPc(rq_pc)
  /\ UNCHANGED <<ma_initialized, ma_router, rq_sel, rq_i, rq_steps, rq_results,
                 rq_out, ex_step, notMA>>

\* execute called directly, with any agent name, tool name and arguments.
ExecuteDirect(a, t, args) ==
  /\ rq_pc \in {"idle", "done"}
  /\ rq_sel' = NoSelection
  /\ rq_i' = 0
  /\ rq_steps' = <<>>
  /\ rq_results' = <<>>
  /\ rq_out' = RQNone
  /\ ExecuteEntry(Step(a, t, args), args, <<>>, "direct_run", "done")
  /\ UNCHANGED <<ma_initialized, ma_router, notMA>>

MANext ==
  \/ RouteQueryStart
  \/ \E sel \in RouterSelections : RouterReturns(sel)
  \/ SingleStep
  \/ SingleFinish
  \/ PlanBegin
  \/ NoMatch
  \/ PlanStep
  \/ PlanStepFinish
  \/ PlanDone
  \/ \E res \in RunResults : RunReturns(res)
  \/ \E msg \in {"boom"} : RunRaises(msg)
  \/ \E a \in {"login", "market_analysis", "nobody"}, t \in {"login", "analyze_stock"},
        args \in ArgMaps : ExecuteDirect(a, t, args)

\* ------------------------------------------------------------- KiteChatbot

\* A user message, by what the code looks at: whether it is blank, its number
\* of words, whether it is one of the greetings, whether a greeting / an
\* out-of-scope keyword / a follow-up indicator occurs in it as a substring.
Message(id, blank, words, exact, greet, oos, followup) ==
  [id |-> id, blank |-> blank, words |-> words, exact |-> exact, greet |-> greet,
   oos |-> oos, followup |-> followup]
Messages ==
  { Message("   ", TRUE, 0, FALSE, FALSE, FALSE, FALSE),
    Message("thanks", FALSE, 1, TRUE, TRUE, FALSE, FALSE),
    Message("tell me a joke", FALSE, 4, FALSE, TRUE, TRUE, FALSE),
    Message("show my holdings", FALSE, 3, FALSE, FALSE, FALSE, TRUE),
    Message("check margins", FALSE, 2, FALSE, FALSE, FALSE, FALSE),
    Message("why did my portfolio drop so much", FALSE, 7, FALSE, FALSE, FALSE, TRUE),
    Message("list all my current open orders today", FALSE, 7, FALSE, FALSE, FALSE, FALSE) }
NoMessage == Message("", TRUE, 0, FALSE, FALSE, FALSE, FALSE)

\* _classify_query
ClassifyQuery(m) ==
  IF m.exact \/ (m.words <= 3 /\ m.greet) THEN "acknowledgment"
  ELSE IF m.oos THEN "out_of_scope"
  ELSE "financial"
NeedsRouting(m) == ClassifyQuery(m) = "financial"

\* A variant of the gate that asks for a follow-up indicator and few words.
RewriteAsksLLMCueAndShort(m, mem) == mem # <<>> /\ m.followup /\ m.words <= 4
\* _rewrite_query reaches its LLM call: there is memory, and the query has a
\* follow-up indicator or at most 4 words.
RewriteAsksLLM(m, mem) == mem # <<>> /\ ~(~m.followup /\ m.words > 4)

\* A query handed to the dispatcher: the message it stems from, rewritten or not.
Query(id, rewritten) == [text |-> id, rewritten |-> rewritten]
NoQuery == Query("", FALSE)

\* What `await self.master.route_query(search_query)` gives: a dict with a
\* status and a message ("" for none), or an exception.
Routed(kind, status, message) == [kind |-> kind, status |-> status, message |-> message]
RouteOutcomes ==
  { Routed("return", "error", "Please log in first."),
    Routed("return", "error", "Router produced invalid step."),
    Routed("return", "error", ""),
    Routed("return", "success", ""),
    Routed("return", "None", ""),
    Routed("raise", "", "KeyError") }

\* err_msg of step 4: the message or the default, replaced when it asks to log in.
ErrMsg(r) ==
  IF r.message = "" THEN "I couldn't process that request."
  ELSE IF r.message \in {"Please log in first.", "Please log in"}
       THEN "Your Zerodha Kite session is not active."
       ELSE r.message

\* The k-th token of an LLM stream.
Token(k) == IF k = 1 THEN "t1" ELSE IF k = 2 THEN "t2" ELSE IF k = 3 THEN "t3" ELSE "t4"

Entry(role, content) == [role |-> role, content |-> content]
\* A variant of the compression that keeps the oldest entries.
CompressKeepsOldest(mem) ==
  IF Len(mem) > MemoryBound THEN SubSeq(mem, 1, MemoryBound) ELSE mem
\* _maybe_compress_memory: self.memory = self.memory[-max_turns:]
CompressMemory(mem) ==
  IF Len(mem) > MemoryBound
  THEN SubSeq(mem, Len(mem) - MemoryBound + 1, Len(mem))
  ELSE mem
\* _remember(role, content)
Remember2(mem, role, content) == CompressMemory(Append(mem, Entry(role, content)))

Call(op, q) == [op |-> op, q |-> q]

ChatInit ==
  /\ memory = <<>>
  /\ narrate \in BOOLEAN
  /\ cs_pc = "idle"
  /\ cs_msg = NoMessage
  /\ cs_query = NoQuery
  /\ cs_branch = "none"
  /\ cs_answer = <<>>
  /\ cs_yielded = <<>>
  /\ cs_out = "none"
  /\ cs_mem0 = <<>>
  /\ cs_base = 0
  /\ cs_calls = <<>>
  /\ cs_all = <<>>
  /\ cs_turns = 0

\* chat_stream(user_input) runs to its first suspension: the blank input yields
\* ""; a message that needs no routing is remembered and its reply stream is
\* requested; a financial one is rewritten (with the LLM when _rewrite_query
\* gets that far) and then routed.
ChatEnter(m) ==
  /\ cs_pc \in {"idle", "done"}
  /\ cs_turns < MaxTurns
  /\ cs_turns' = cs_turns + 1
  /\ cs_msg' = m
  /\ cs_mem0' = memory
  /\ cs_base' = Len(cs_all)
  /\ cs_answer' = <<>>
  /\ cs_out' = "none"
  /\ IF m.blank
     THEN /\ cs_yielded' = <<"">>
          /\ cs_pc' = "y_final"
          /\ cs_calls' = <<>>
          /\ cs_query' = NoQuery
          /\ cs_branch' = "none"
          /\ UNCHANGED <<memory, cs_all>>
     ELSE IF ~NeedsRouting(m)
     THEN /\ memory' = Remember2(memory, "user", <<m.id>>)
          /\ cs_all' = Append(cs_all, Entry("user", <<m.id>>))
          /\ cs_yielded' = <<>>
          /\ cs_pc' = "stream_open"
          /\ cs_calls' = <<Call("llm", NoQuery)>>
          /\ cs_query' = NoQuery
          /\ cs_branch' = "direct"
     ELSE /\ cs_yielded' = <<>>
          /\ cs_branch' = "none"
          /\ UNCHANGED <<memory, cs_all>>
          /\ IF RewriteAsksLLM(m, memory)
             THEN /\ cs_pc' = "rewriting"
                  /\ cs_calls' = <<Call("rewrite", Query(m.id, FALSE))>>
                  /\ cs_query' = NoQuery
             ELSE /\ cs_pc' = "routing"
                  /\ cs_query' = Query(m.id, FALSE)
                  /\ cs_calls' = <<Call("route", Query(m.id, FALSE))>>
  /\ UNCHANGED <<narrate, belowChat>>

\* chat_stream is called by a consumer that is not modelled further.
ChatStart(m) ==
  /\ ChatEnter(m)
  /\ UNCHANGED epVars

\* A variant that routes the original query after a rewrite.
RewriteReturnsRoutesOriginal(usable) ==
  /\ cs_pc = "rewriting"
  /\ cs_query' = Query(cs_msg.id, usable)
  /\ cs_calls' = Append(cs_calls, Call("route", Query(cs_msg.id, FALSE)))
  /\ cs_pc' = "routing"
  /\ UNCHANGED <<memory, narrate, cs_msg, cs_branch, cs_answer, cs_yielded, cs_out,
                 cs_mem0, cs_base, cs_all, cs_turns, notChat>>
\* The LLM call of _rewrite_query is back: a usable rewritten text becomes the
\* search query; an exception or a text of at most 5 characters leaves the
\* original.  route_query is then awaited with the search query.
RewriteReturns(usable) ==
  /\ cs_pc = "rewriting"
  /\ cs_query' = Query(cs_msg.id, usable)
  /\ cs_calls' = Append(cs_calls, Call("route", Query(cs_msg.id, usable)))
  /\ cs_pc' = "routing"
  /\ UNCHANGED <<memory, narrate, cs_msg, cs_branch, cs_answer, cs_yielded, cs_out,
                 cs_mem0, cs_base, cs_all, cs_turns, notChat>>

\* user and assistant entries remembered one after the other.
RememberBoth(mem, m, content) ==
  Remember2(Remember2(mem, "user", <<m.id>>), "assistant", content)
BothEntries(m, content) == <<Entry("user", <<m.id>>), Entry("assistant", content)>>

\* route_query is back (or raised): steps 3 to 6 of chat_stream up to the next
\* suspension.
RouteReturns(r) ==
  /\ cs_pc = "routing"
  /\ IF r.kind = "raise"
     THEN /\ memory' = RememberBoth(memory, cs_msg, <<"I encountered an issue">>)
          /\ cs_all' = cs_all \o BothEntries(cs_msg, <<"I encountered an issue">>)
          /\ cs_yielded' = <<"I encountered an issue">>
          /\ cs_pc' = "y_final"
          /\ UNCHANGED <<cs_branch, cs_calls>>
     ELSE IF r.status = "error"
     THEN /\ memory' = RememberBoth(memory, cs_msg, <<ErrMsg(r)>>)
          /\ cs_all' = cs_all \o BothEntries(cs_msg, <<ErrMsg(r)>>)
          /\ cs_yielded' = <<ErrMsg(r)>>
          /\ cs_pc' = "y_final"
          /\ UNCHANGED <<cs_branch, cs_calls>>
     ELSE IF r.status = "success" /\ narrate
     THEN /\ cs_branch' = "narrate"
          /\ cs_calls' = Append(cs_calls, Call("llm", NoQuery))
          /\ cs_pc' = "stream_open"
          /\ UNCHANGED <<memory, cs_all, cs_yielded>>
     ELSE IF r.status = "success"
     THEN /\ memory' = RememberBoth(memory, cs_msg, <<"pretty">>)
          /\ cs_all' = cs_all \o BothEntries(cs_msg, <<"pretty">>)
          /\ cs_yielded' = <<"pretty">>
          /\ cs_pc' = "y_final"
          /\ UNCHANGED <<cs_branch, cs_calls>>
     ELSE /\ memory' = Remember2(memory, "user", <<cs_msg.id>>)
          /\ cs_all' = Append(cs_all, Entry("user", <<cs_msg.id>>))
          /\ cs_branch' = "fallback"
          /\ cs_calls' = Append(cs_calls, Call("llm", NoQuery))
          /\ cs_pc' = "stream_open"
          /\ UNCHANGED cs_yielded
  /\ UNCHANGED <<narrate, cs_msg, cs_query, cs_answer, cs_out, cs_mem0, cs_base, cs_turns,
                 notChat>>

\* _stream_llm: `stream = await self.client.chat.completions.create(...)` returns.
StreamOpens ==
  /\ cs_pc = "stream_open"
  /\ cs_pc' = "streaming"
  /\ UNCHANGED <<memory, narrate, cs_msg, cs_query, cs_branch, cs_answer, cs_yielded,
                 cs_out, cs_mem0, cs_base, cs_calls, cs_all, cs_turns, notChat>>

\* The next chunk arrives: full_answer += token; yield token.
StreamToken ==
  /\ cs_pc = "streaming"
  /\ Len(cs_answer) < MaxTokens
  /\ cs_answer' = Append(cs_answer, Token(Len(cs_answer) + 1))
  /\ cs_yielded' = Append(cs_yielded, Token(Len(cs_answer) + 1))
  /\ cs_pc' = "y_token"
  /\ UNCHANGED <<memory, narrate, cs_msg, cs_query, cs_branch, cs_out, cs_mem0, cs_base,
                 cs_calls, cs_all, cs_turns, notChat>>

\* A variant of the end of the stream that remembers only the last token.
StreamEndsLastToken ==
  /\ cs_pc = "streaming"
  /\ LET ans == IF cs_answer = <<>> THEN <<>> ELSE <<cs_answer[Len(cs_answer)]>> IN
       IF cs_branch = "narrate"
       THEN /\ memory' = RememberBoth(memory, cs_msg, ans)
            /\ cs_all' = cs_all \o BothEntries(cs_msg, ans)
       ELSE /\ memory' = Remember2(memory, "assistant", ans)
            /\ cs_all' = Append(cs_all, Entry("assistant", ans))
  /\ cs_pc' = "done"
  /\ cs_out' = "end"
  /\ UNCHANGED <<narrate, cs_msg, cs_query, cs_branch, cs_answer, cs_yielded,
                 cs_mem0, cs_base, cs_calls, cs_turns, notChat>>
\* The stream is exhausted: the code after the loop remembers the answer (and,
\* in the narration branch, the user message first), and the generator ends.
StreamEnds ==
  /\ cs_pc = "streaming"
  /\ IF cs_branch = "narrate"
     THEN /\ memory' = RememberBoth(memory, cs_msg, cs_answer)
          /\ cs_all' = cs_all \o BothEntries(cs_msg, cs_answer)
     ELSE /\ memory' = Remember2(memory, "assistant", cs_answer)
          /\ cs_all' = Append(cs_all, Entry("assistant", cs_answer))
  /\ cs_pc' = "done"
  /\ cs_out' = "end"
  /\ UNCHANGED <<narrate, cs_msg, cs_query, cs_branch, cs_answer, cs_yielded,
                 cs_mem0, cs_base, cs_calls, cs_turns, notChat>>

\* The LLM call or the iteration of the stream raises: no try block surrounds
\* the `async for` in chat_stream, so the exception leaves the generator.
StreamBreaks ==
  /\ cs_pc \in {"stream_open", "streaming"}
  /\ cs_pc' = "done"
  /\ cs_out' = "raise"
  /\ UNCHANGED <<memory, narrate, cs_msg, cs_query, cs_branch, cs_answer, cs_yielded,
                 cs_mem0, cs_base, cs_calls, cs_all, cs_turns, notChat>>

\* The consumer asks for the next item: after a token the stream goes on
\* (past asyncio.sleep(stream_delay)); after a final message the generator returns.
ConsumerNext ==
  /\ cs_pc \in {"y_token", "y_final"}
  /\ IF cs_pc = "y_token"
     THEN /\ cs_pc' = "streaming"
          /\ UNCHANGED cs_out
     ELSE /\ cs_pc' = "done"
          /\ cs_out' = "end"
  /\ UNCHANGED <<memory, narrate, cs_msg, cs_query, cs_branch, cs_answer, cs_yielded,
                 cs_mem0, cs_base, cs_calls, cs_all, cs_turns, notChat>>

\* The places where chat_stream is suspended: its awaits and its yields.
Suspended == cs_pc \in {"rewriting", "routing", "stream_open", "streaming", "y_token",
                        "y_final"}

\* The consumer is cancelled (or closes the generator): CancelledError or
\* GeneratorExit is raised at the suspension point; no handler of chat_stream
\* catches it, and nothing runs after it.
ConsumerCancels ==
  /\ Suspended
  /\ cs_pc' = "done"
  /\ cs_out' = "cancelled"
  /\ UNCHANGED <<memory, narrate, cs_msg, cs_query, cs_branch, cs_answer, cs_yielded,
                 cs_mem0, cs_base, cs_calls, cs_all, cs_turns, notChat>>

\* The entries of a turn of another request on the same KiteChatbot.
OtherUser == Entry("user", <<"other request">>)
OtherAssistant == Entry("assistant", <<"other answer">>)
OtherTurns == Cardinality({i \in DOMAIN cs_all : cs_all[i] = OtherUser})

\* A chat_stream turn of another request runs on the shared KiteChatbot
\* while this turn is suspended, and comes to one of the places where both
\* entries are remembered together (an error or a message of the dispatcher).
OverlappedTurnRemembers ==
  /\ Suspended
  /\ OtherTurns < MaxTurns
  /\ memory' = Remember2(Remember2(memory, "user", OtherUser.content),
                         "assistant", OtherAssistant.content)
  /\ cs_all' = cs_all \o <<OtherUser, OtherAssistant>>
  /\ UNCHANGED <<narrate, cs_pc, cs_msg, cs_query, cs_branch, cs_answer, cs_yielded,
                 cs_out, cs_mem0, cs_base, cs_calls, cs_turns, notChat>>

OverlapNext ==
  \/ \E m \in Messages : ChatStart(m)
  \/ \E usable \in BOOLEAN : RewriteReturns(usable)
  \/ \E r \in RouteOutcomes : RouteReturns(r)
  \/ StreamOpens
  \/ StreamToken
  \/ StreamEnds
  \/ StreamBreaks
  \/ ConsumerNext
  \/ OverlappedTurnRemembers

ChatNext ==
  \/ \E m \in Messages : ChatStart(m)
  \/ \E usable \in BOOLEAN : RewriteReturns(usable)
  \/ \E r \in RouteOutcomes : RouteReturns(r)
  \/ StreamOpens
  \/ StreamToken
  \/ StreamEnds
  \/ StreamBreaks
  \/ ConsumerNext
  \/ ConsumerCancels

\* ------------------------------------- a chat turn over the dispatcher

\* The selections the router gives in a chat turn: nothing, a step, a plan
\* of two steps, and a plan whose second step is in no catalog.
TurnSelections ==
  { NoSelection,
    Dict({"agent", "tool", "arguments"}, "login", "login", EmptyMap, <<>>),
    Dict({"plan"}, "", "", EmptyMap,
         << Dict({"agent", "tool", "arguments"}, "login", "login", EmptyMap, <<>>),
            Dict({"agent", "tool", "arguments"}, "market_analysis", "analyze_stock",
                 [k \in {"symbol", "bogus"} |-> IF k = "symbol" THEN "TCS" ELSE "x"],
                 <<>>) >>),
    Dict({"plan"}, "", "", EmptyMap,
         << Dict({"agent", "tool", "arguments"}, "login", "login", EmptyMap, <<>>),
            Dict({"agent", "tool", "arguments"}, "nobody", "login", EmptyMap, <<>>) >>) }

\* `routed` as chat_stream sees what route_query gave.
RoutedOf(out) ==
  IF out.kind = "raise" THEN Routed("raise", "", out.message)
  ELSE Routed("return", out.status, out.message)

\* A turn begins; one turn of a behaviour goes through the dispatcher.
TurnStart(m) ==
  /\ NeedsRouting(m) /\ ~m.blank => rq_pc = "idle"
  /\ ChatStart(m)

\* routed = await self.master.route_query(search_query): the call ...
TurnRouteStarts ==
  /\ cs_pc = "routing"
  /\ rq_pc = "idle"
  /\ RouteQueryStart

\* ... and its return.
TurnRouteReturns ==
  /\ cs_pc = "routing"
  /\ rq_pc = "done"
  /\ RouteReturns(RoutedOf(rq_out))

TurnNext ==
  \/ \E m \in Messages : TurnStart(m)
  \/ \E usable \in BOOLEAN : RewriteReturns(usable)
  \/ TurnRouteStarts
  \/ \E sel \in TurnSelections : RouterReturns(sel)
  \/ SingleStep
  \/ SingleFinish
  \/ PlanBegin
  \/ NoMatch
  \/ PlanStep
  \/ PlanStepFinish
  \/ PlanDone
  \/ \E res \in RunResults : RunReturns(res)
  \/ \E msg \in {"boom"} : RunRaises(msg)
  \/ TurnRouteReturns
  \/ StreamOpens
  \/ StreamToken
  \/ StreamEnds
  \/ StreamBreaks
  \/ ConsumerNext

\* ------------------------------------------- the streaming endpoints

\* An event of the response: f"data: {json.dumps({...})}\n\n".
SSE(type, done) == [type |-> type, done |-> done]
\* The event of a content chunk whose text is a notice of stream_analysis.
Notice(text) == [type |-> "content", done |-> FALSE, text |-> text]
NoticeTexts == {"connectivity", "interrupted"}

\* The session ids of the market agent's MEMORY; the endpoint's requests
\* come with the first one.
SessionIds == {"default", "other"}
RequestSession == "default"
\* HumanMessage(content=user_msg) and AIMessage(content=ai_msg) of the id-th
\* turn added to a session; n is the number of chunks in the response.
HumanMessage(id) == [role |-> "human", id |-> id, n |-> 0]
AIMessage(id, n) == [role |-> "ai", id |-> id, n |-> n]
\* The ordinal of the next turn added to a session's history.
NextId(mem) == IF mem = <<>> THEN 1 ELSE mem[Len(mem)].id + 1

\* A variant of add_to_memory that prunes to 6 messages before it adds.
AddToMemoryPrunesToSix(mem, user_msg, ai_msg) ==
  (IF Len(mem) >= 6 THEN SubSeq(mem, Len(mem) - 5, Len(mem)) ELSE mem)
    \o <<user_msg, ai_msg>>
\* add_to_memory: with 6 or more messages keep the last 4, then extend by
\* the two messages of the turn.
AddToMemory(mem, user_msg, ai_msg) ==
  (IF Len(mem) >= 6 THEN SubSeq(mem, Len(mem) - 3, Len(mem)) ELSE mem)
    \o <<user_msg, ai_msg>>

\* add_to_memory(session_id, user_msg, ai_msg) is called.
AddTurn(s, n) ==
  /\ NextId(mk_memory[s]) <= MaxAdds
  /\ mk_memory' = [mk_memory EXCEPT ![s] =
                     AddToMemory(@, HumanMessage(NextId(@)), AIMessage(NextId(@), n))]
  /\ UNCHANGED <<ep_kind, ep_pc, ep_events, sa_pc, sa_n, mk_turns, chatVars, belowChat>>

\* A variant that forwards every chunk, the "done" chunk included.
ForwardEveryChunk(chunk_type) ==
  IF chunk_type = "error" THEN <<SSE("error", TRUE)>>
  ELSE IF chunk_type = "done" THEN <<SSE("done", TRUE)>>
  ELSE <<SSE(chunk_type, FALSE)>>
\* The if / elif chain of market_chatbot_stream's loop: what a chunk of
\* stream_analysis becomes; a chunk of another type is passed over.
ForwardChunk(chunk_type) ==
  IF chunk_type \in {"status", "sources", "content"} THEN <<SSE(chunk_type, FALSE)>>
  ELSE IF chunk_type \in NoticeTexts THEN <<Notice(chunk_type)>>
  ELSE IF chunk_type = "error" THEN <<SSE("error", TRUE)>>
  ELSE <<>>

\* generate_stream of the market endpoint gets a chunk: after an "error"
\* chunk it returns.
MarketForwards(chunk_type, next_pc) ==
  /\ ep_events' = ep_events \o ForwardChunk(chunk_type)
  /\ IF chunk_type = "error"
       THEN ep_pc' = "closed" /\ sa_pc' = "over"
       ELSE ep_pc' = "open" /\ sa_pc' = next_pc

\* stream_analysis ends after its "done" chunk; the loop of generate_stream
\* is over and the completion event follows.
MarketCompletes ==
  /\ ep_events' = (ep_events \o ForwardChunk("done")) \o <<SSE("done", TRUE)>>
  /\ ep_pc' = "closed"
  /\ sa_pc' = "over"

EndpointIdle ==
  /\ ep_kind = "none"
  /\ ep_pc = "idle"
  /\ ep_events = <<>>
  /\ sa_pc = "idle"
  /\ sa_n = 0
  /\ mk_turns = 0
  /\ mk_memory = [s \in SessionIds |-> <<>>]

\* No response is being streamed.
NoneOpen == ep_pc # "open"

\* POST /portfolio/chatbot_stream: an empty query is refused with status
\* 400, else the response streams bot.chat_stream(user_query).
PortfolioRequest(m) ==
  /\ NoneOpen
  /\ cs_turns + mk_turns < MaxTurns
  /\ ep_kind' = "portfolio"
  /\ ep_events' = <<>>
  /\ IF m.blank
       THEN /\ ep_pc' = "refused"
            /\ UNCHANGED <<chatVars, belowChat>>
       ELSE /\ ep_pc' = "open"
            /\ ChatEnter(m)
  /\ UNCHANGED <<sa_pc, sa_n, mk_turns, mk_memory>>

\* The loop of generate_stream gets a token of chat_stream and sends it on.
PortfolioForwards ==
  /\ ep_kind = "portfolio"
  /\ ep_pc = "open"
  /\ Len(ep_events) < Len(cs_yielded)
  /\ ep_events' = Append(ep_events, SSE("content", FALSE))
  /\ UNCHANGED <<ep_kind, ep_pc, sa_pc, sa_n, mk_turns, mk_memory, chatVars, belowChat>>

\* chat_stream is exhausted: the completion event.
PortfolioCompletes ==
  /\ ep_kind = "portfolio"
  /\ ep_pc = "open"
  /\ Len(ep_events) = Len(cs_yielded)
  /\ cs_pc = "done"
  /\ cs_out = "end"
  /\ ep_events' = Append(ep_events, SSE("done", TRUE))
  /\ ep_pc' = "closed"
  /\ UNCHANGED <<ep_kind, sa_pc, sa_n, mk_turns, mk_memory, chatVars, belowChat>>

\* chat_stream raised: except Exception sends the error event.
PortfolioFails ==
  /\ ep_kind = "portfolio"
  /\ ep_pc = "open"
  /\ Len(ep_events) = Len(cs_yielded)
  /\ cs_pc = "done"
  /\ cs_out = "raise"
  /\ ep_events' = Append(ep_events, SSE("error", TRUE))
  /\ ep_pc' = "closed"
  /\ UNCHANGED <<ep_kind, sa_pc, sa_n, mk_turns, mk_memory, chatVars, belowChat>>

\* POST /market_chatbot/stream: an empty query is refused with status 400,
\* else the response streams stream_analysis(user_query, session_id).
MarketRequest(blank) ==
  /\ NoneOpen
  /\ cs_pc \in {"idle", "done"}
  /\ cs_turns + mk_turns < MaxTurns
  /\ mk_turns' = mk_turns + 1
  /\ ep_kind' = "market"
  /\ ep_events' = <<>>
  /\ sa_n' = 0
  /\ IF blank
       THEN ep_pc' = "refused" /\ sa_pc' = "idle"
       ELSE ep_pc' = "open" /\ sa_pc' = "classify"
  /\ UNCHANGED <<mk_memory, chatVars, belowChat>>

\* stream_analysis, steps 1 to 3: classify_query and get_memory; a query that
\* needs a search yields the status chunk; an exception is caught by the
\* outer handler, which yields the error chunk.
MarketClassifies(outcome) ==
  /\ ep_kind = "market"
  /\ sa_pc = "classify"
  /\ CASE outcome = "search" -> MarketForwards("status", "search")
       [] outcome = "no_search" -> MarketForwards("none", "llm")
       [] OTHER -> MarketForwards("error", "over")
  /\ UNCHANGED <<ep_kind, sa_n, mk_turns, mk_memory, chatVars, belowChat>>

\* rewrite_query and search_with_timeout are back: results yield the sources
\* chunk, no result yields nothing, an exception yields the error chunk.
MarketSearches(outcome) ==
  /\ ep_kind = "market"
  /\ sa_pc = "search"
  /\ CASE outcome = "results" -> MarketForwards("sources", "llm")
       [] outcome = "nothing" -> MarketForwards("none", "llm")
       [] OTHER -> MarketForwards("error", "over")
  /\ UNCHANGED <<ep_kind, sa_n, mk_turns, mk_memory, chatVars, belowChat>>

\* Steps 4 and 5: without an LLM the error chunk is yielded and the generator
\* returns; an exception while the prompt is built does the same through the
\* outer handler.
MarketGetsLLM(available) ==
  /\ ep_kind = "market"
  /\ sa_pc = "llm"
  /\ IF available THEN MarketForwards("none", "stream")
                  ELSE MarketForwards("error", "over")
  /\ UNCHANGED <<ep_kind, sa_n, mk_turns, mk_memory, chatVars, belowChat>>

\* Step 6: a chunk of llm.astream is added to full_response and yielded.
MarketToken ==
  /\ ep_kind = "market"
  /\ sa_pc = "stream"
  /\ sa_n < MaxTokens
  /\ sa_n' = sa_n + 1
  /\ MarketForwards("content", "stream")
  /\ UNCHANGED <<ep_kind, mk_turns, mk_memory, chatVars, belowChat>>

\* llm.astream raises: the inner handler yields one content chunk (a notice),
\* and step 7 follows.
MarketStreamBreaks ==
  /\ ep_kind = "market"
  /\ sa_pc = "stream"
  /\ MarketForwards(IF sa_n = 0 THEN "connectivity" ELSE "interrupted", "save")
  /\ UNCHANGED <<ep_kind, sa_n, mk_turns, mk_memory, chatVars, belowChat>>

\* llm.astream is exhausted.
MarketStreamEnds ==
  /\ ep_kind = "market"
  /\ sa_pc = "stream"
  /\ MarketForwards("none", "save")
  /\ UNCHANGED <<ep_kind, sa_n, mk_turns, mk_memory, chatVars, belowChat>>

\* A variant that saves the turn whatever the response holds.
SavedMemoryAlways(mem, n) ==
  [mem EXCEPT ![RequestSession] =
     AddToMemory(@, HumanMessage(NextId(@)), AIMessage(NextId(@), n))]
\* if full_response: add_to_memory(session_id, query, full_response)
SavedMemory(mem, n) ==
  IF n > 0
  THEN [mem EXCEPT ![RequestSession] =
          AddToMemory(@, HumanMessage(NextId(@)), AIMessage(NextId(@), n))]
  ELSE mem

\* Steps 7 and 8: add_to_memory when full_response is not empty, then the
\* "done" chunk, after which the generator ends.
MarketSaves ==
  /\ ep_kind = "market"
  /\ sa_pc = "save"
  /\ mk_memory' = SavedMemory(mk_memory, sa_n)
  /\ MarketCompletes
  /\ UNCHANGED <<ep_kind, sa_n, mk_turns, chatVars, belowChat>>

\* The market endpoint alone.
MarketNext ==
  \/ \E blank \in BOOLEAN : MarketRequest(blank)
  \/ \E outcome \in {"search", "no_search", "raise"} : MarketClassifies(outcome)
  \/ \E outcome \in {"results", "nothing", "raise"} : MarketSearches(outcome)
  \/ \E available \in BOOLEAN : MarketGetsLLM(available)
  \/ MarketToken
  \/ MarketStreamBreaks
  \/ MarketStreamEnds
  \/ MarketSaves

\* Callers of add_to_memory, for any session.
MemNext == \E s \in SessionIds : \E n \in 1..MaxTokens : AddTurn(s, n)

\* The chat turn of the portfolio endpoint and both endpoints; the client
\* stays connected until the response is over.
StreamNext ==
  \/ \E m \in Messages : PortfolioRequest(m)
  \/ PortfolioForwards
  \/ PortfolioCompletes
  \/ PortfolioFails
  \/ \E usable \in BOOLEAN : RewriteReturns(usable)
  \/ \E r \in RouteOutcomes : RouteReturns(r)
  \/ StreamOpens
  \/ StreamToken
  \/ StreamEnds
  \/ StreamBreaks
  \/ ConsumerNext
  \/ \E blank \in BOOLEAN : MarketRequest(blank)
  \/ \E outcome \in {"search", "no_search", "raise"} : MarketClassifies(outcome)
  \/ \E outcome \in {"results", "nothing", "raise"} : MarketSearches(outcome)
  \/ \E available \in BOOLEAN : MarketGetsLLM(available)
  \/ MarketToken
  \/ MarketStreamBreaks
  \/ MarketStreamEnds
  \/ MarketSaves

\* ------------------------------------------------------- specifications

RLNext ==
  \/ \E t \in Tasks : AcquireEnter(t)
  \/ \E t \in Tasks : AcquireLock(t)
  \/ \E t \in Tasks : AcquireCheck(t)
  \/ \E t \in Tasks : AcquireWake(t)
  \/ \E t \in Tasks : AcquireReturn(t)
  \/ Tick

RLFairNext ==
  \/ \E t \in Tasks : Arrive(t)
  \/ \E t \in Tasks : AcquireLock(t)
  \/ \E t \in Tasks : AcquireCheck(t)
  \/ \E t \in Tasks : AcquireWake(t)
  \/ \E t \in Tasks : AcquireReturn(t)
  \/ Clock

\* The event loop runs every task that can run, and time goes on.
RLFairness ==
  /\ \A t \in Tasks :
       /\ WF_vars(AcquireLock(t))
       /\ WF_vars(AcquireCheck(t))
       /\ WF_vars(AcquireWake(t))
  /\ WF_vars(ClockForSleeper)

\* The session is, or was, wiped by an endpoint.
Wiped == sess_ops # <<>>
\* What the wiping endpoints and the status endpoint leave alone.
notWipe == <<rlVars, callVars, maVars, chatVars, pollVars, sa_pc, sa_n, mk_turns, mk_memory,
             fin_pc, fin_valid, fin_ret, fin_pre, fin_calls, sess_ret>>

\* POST /portfolio/login-confirm, on a session that was not wiped before.
LoginConfirm ==
  /\ ~Wiped
  /\ FinalizeSession

\* GET /portfolio/connect: clear_session(), then get_login_url(), whose call
\* connects anew (restore_session comes first in connect).
ConnectPortfolio ==
  /\ fin_pc = "idle"
  /\ \E deleted \in BOOLEAN : \E answer \in UrlAnswers : \E c \in ClientAfterUrl(answer) :
       LET cleared == ClearOp(Cur, deleted) IN
         /\ headers' = RestoreOp(cleared).headers
         /\ session_file' = cleared.file
         /\ kc_client' = c
         /\ kc_transport' = IF c = "None" THEN "None" ELSE "set"
         /\ ep_pc' = IF answer = "url" THEN "returned" ELSE "failed"
  /\ sess_ops' = Ops2(sess_ops, "clear")
  /\ sess_pre' = Cur
  /\ sess_raised' = Raises("clear", Cur)
  /\ ep_kind' = "connect"
  /\ ep_events' = <<>>
  /\ UNCHANGED <<shared_session, probeVars, notWipe>>

\* POST /portfolio/disconnect: clear_session(), then the session entry is
\* popped from shared_state.
DisconnectPortfolio ==
  /\ fin_pc = "idle"
  /\ \E deleted \in BOOLEAN : Becomes(ClearOp(Cur, deleted))
  /\ shared_session' = "absent"
  /\ sess_ops' = Ops2(sess_ops, "clear")
  /\ sess_pre' = Cur
  /\ sess_raised' = Raises("clear", Cur)
  /\ ep_kind' = "disconnect"
  /\ ep_pc' = "returned"
  /\ ep_events' = <<>>
  /\ UNCHANGED <<probeVars, notWipe>>

\* {"connected": is_valid or has_session}
StatusBody(is_valid, has_session) == [connected |-> is_valid \/ has_session]

\* GET /portfolio/status: validate_session(), then the look into shared_state.
PortfolioStatus ==
  /\ fin_pc = "idle"
  /\ \E answer \in ProbeAnswers : \E c \in ClientAfterProbe(answer) :
       /\ kc_client' = c
       /\ kc_transport' = IF c = "None" THEN "None" ELSE "set"
       /\ vs_out' = [kind |-> "return", val |-> answer = "profile"]
       /\ ep_events' = <<StatusBody(answer = "profile", shared_session # "absent")>>
  /\ headers' = IF kc_client = "None" THEN RestoreOp(Cur).headers ELSE headers
  /\ vs_pc' = "done"
  /\ ep_kind' = "status"
  /\ ep_pc' = "returned"
  /\ UNCHANGED <<session_file, shared_session, vs_res, sess_ops, sess_pre,
                 sess_raised, notWipe>>

WipeNext ==
  \/ LoginConfirm
  \/ ValidateSessionReturns
  \/ FinalizeReturns
  \/ ConnectPortfolio
  \/ DisconnectPortfolio
  \/ PortfolioStatus

RaceNext ==
  \/ CallNext
  \/ ClearWhileSuspended

\* The MasterAgent at rest, for the specifications of the client alone.
MAIdle == MAInit /\ ~ma_initialized
\* The KiteChatbot at rest.
ChatIdle == ChatInit /\ narrate

\* Tasks calling RateLimiter.acquire() over and over, on a client at rest.
InitRL == RLInit /\ KCInit /\ CallInit /\ session_file = NoFile /\ MAIdle /\ ChatIdle /\ SessIdle /\ LoginIdle /\ PollIdle /\ ProbeIdle /\ EndpointIdle
SpecRL == InitRL /\ [][RLNext]_vars

\* Tasks arriving at RateLimiter.acquire() within a bounded time, scheduled
\* fairly.
InitRLFair == InitRL
SpecRLFair == InitRLFair /\ [][RLFairNext]_vars /\ RLFairness

\* One task calling KiteMCPClient.call over and over.
InitCall == RLInit /\ KCInit /\ CallInit /\ MAIdle /\ ChatIdle /\ SessIdle /\ LoginIdle /\ PollIdle /\ ProbeIdle /\ EndpointIdle
SpecCall == InitCall /\ [][CallNext]_vars

\* One task calling MasterAgent.route_query or MasterAgent.execute over and
\* over, on a client at rest.
InitMA == RLInit /\ KCInit /\ CallInit /\ session_file = NoFile /\ MAInit /\ ChatIdle /\ SessIdle /\ LoginIdle /\ PollIdle /\ ProbeIdle /\ EndpointIdle
SpecMA == InitMA /\ [][MANext]_vars

\* A consumer running chat_stream turns one after the other, on a dispatcher
\* at rest.
InitChat == RLInit /\ KCInit /\ CallInit /\ session_file = NoFile /\ MAIdle /\ ChatInit /\ SessIdle /\ LoginIdle /\ PollIdle /\ ProbeIdle /\ EndpointIdle
SpecChat == InitChat /\ [][ChatNext]_vars

\* save_session, restore_session and clear_session called in any order, from
\* any state of the client and its session file, on a file system that works.
InitSess == RLInit /\ SessKCInit /\ CallInit /\ MAIdle /\ ChatIdle /\ SessIdle /\ LoginIdle /\ PollIdle /\ ProbeIdle /\ EndpointIdle
SpecSess == InitSess /\ [][SessNext]_vars
\* The same, on a file system where removing the session file may fail.
InitSessIO == InitSess
SpecSessIO == InitSessIO /\ [][SessIONext]_vars

InitLogin == InitSess
SpecLogin == InitLogin /\ [][LoginNext]_vars

\* A chatbot whose MasterAgent is set up, with its router.
InitTurn == RLInit /\ KCInit /\ CallInit /\ session_file = NoFile /\ MAInit /\ ma_router /\ ChatInit /\ SessIdle /\ LoginIdle /\ PollIdle /\ ProbeIdle /\ EndpointIdle
SpecTurn == InitTurn /\ [][TurnNext]_vars

\* chat_stream turns of two requests overlapping on the one KiteChatbot.
InitOverlap == InitChat
SpecOverlap == InitOverlap /\ [][OverlapNext]_vars

\* The login endpoints: a session is confirmed, wiped, and the status asked.
InitWipe == InitSess
SpecWipe == InitWipe /\ [][WipeNext]_vars

InitStream == InitChat

\* Requests to the market endpoint, one after the other.
InitMarket == InitChat
SpecMarket == InitMarket /\ [][MarketNext]_vars

\* add_to_memory called over and over.
InitMem == InitChat
SpecMem == InitMem /\ [][MemNext]_vars
SpecStream == InitStream /\ [][StreamNext]_vars

\* One task calling KiteMCPClient.call while request handlers clear the
\* session of the same client.
InitRace == InitCall
SpecRace == InitRace /\ [][RaceNext]_vars

InitProbe == InitCall
SpecProbe == InitProbe /\ [][ProbeNext]_vars

\* The event loop resumes _login whenever the call it awaits has returned.
InitPoll == InitSess
SpecPoll == InitPoll /\ [][PollNext]_vars /\ WF_vars(PollNext)

\* ----------------------------------------------------------------- claims

\* Number of grants recorded at a time in the window [s, s + TimeWindow).
GrantsIn(s) ==
  Cardinality({i \in DOMAIN granted : s <= granted[i] /\ granted[i] < s + TimeWindow})

\* C1: under any interleaving of acquire() calls and any advance of the clock,
\* every sliding window of length time_window (the code's window: a request at
\* time r is inside the window of `now` while now - r < time_window) holds at
\* most max_requests grants.
C1_WindowNeverExceeds ==
  \A s \in 0..MaxTime : GrantsIn(s) <= MaxRequests

\* A window was full, a task slept for it, and a later grant followed.
C1_Witness ==
  /\ Len(granted) = MaxRequests + 1
  /\ \E s \in 0..MaxTime : GrantsIn(s) = MaxRequests
  /\ \E t \in Tasks : rl_wake[t] > 0

\* ---- KiteMCPClient.call: what the history of one call shows

EventsOf(kind) == SelectSeq(trace, LAMBDA x : x.ev = kind)
Count(kind) == Len(EventsOf(kind))
\* The error events of the call, and whether all of them carry a given signal.
ErrorIdx == {i \in DOMAIN trace : trace[i].ev = "error"}
\* A rate-limit signal: '429' or 'too many requests' in the error text.
RateSignal(e) == "429" \in e.msg \/ "too many requests" \in e.msg
\* A transport failure: a transport word or type, and no rate-limit signal.
TransportFailure(e) ==
  /\ ~RateSignal(e)
  /\ \/ e.msg \cap {"broken", "connection", "closed", "resource", "anyio"} # {}
     \/ e.type \in {"ClosedResourceError", "RemoteProtocolError", "EndOfStream",
                    "ConnectionResetError"}
AllRate == \A i \in ErrorIdx : RateSignal(trace[i].e)
AllTransport == \A i \in ErrorIdx : TransportFailure(trace[i].e)
MinOf(a, b) == IF a < b THEN a ELSE b
\* The index of the last error event before position i (0 when there is none).
LastErrorBefore(i) ==
  LET js == {j \in ErrorIdx : j < i} IN
    IF js = {} THEN 0 ELSE CHOOSE j \in js : \A k \in js : k <= j

\* C2: when the attempts of call fail with a rate-limit signal, the call makes
\* exactly min(failures, max_retries) retries, sleeps retry_delay * 2^attempt
\* before each of them (strictly increasing delays), and with max_retries
\* retries used up raises ToolError 'Rate limit exceeded', not the last error.
C2_RateLimitRetries ==
  AllRate =>
    /\ \A i \in DOMAIN trace :
         (trace[i].ev = "attempt" /\ trace[i].n > 0) =>
           /\ trace[i - 1].ev = "sleep"
           /\ trace[i - 1].n = RetryDelay * (2 ^ (trace[i].n - 1))
    /\ \A i, j \in DOMAIN EventsOf("sleep") :
         i < j => EventsOf("sleep")[i].n < EventsOf("sleep")[j].n
    /\ (c_pc = "done" /\ Count("error") > 0) =>
         /\ Count("attempt") - 1 = MinOf(Count("error"), MaxRetries)
         /\ Count("sleep") = Count("attempt") - 1
         /\ Count("error") > MaxRetries =>
              /\ c_out = [kind |-> "raise", val |-> RateLimitExceeded]
              /\ c_out.val # last_error
         /\ Count("error") <= MaxRetries => c_out.kind = "return"

\* Every attempt hit a rate-limit signal and the typed error was raised.
C2_Witness ==
  /\ c_pc = "done"
  /\ AllRate
  /\ Count("error") = MaxRetries + 1
  /\ Count("attempt") = MaxRetries + 1
  /\ c_out.val = RateLimitExceeded

\* C3: after an attempt that failed with a transport error, the next attempt
\* is preceded by exactly one force_reconnect() (whether or not the reconnect
\* succeeded), and an exception raised after a transport failure is raised
\* only once max_retries retries are used up and is that last attempt's own
\* exception.
C3_ReconnectBeforeRetry ==
  /\ \A i \in DOMAIN trace :
       (/\ trace[i].ev = "attempt"
        /\ trace[i].n > 0
        /\ TransportFailure(trace[LastErrorBefore(i)].e)) =>
         Cardinality({j \in DOMAIN trace :
                        /\ LastErrorBefore(i) < j
                        /\ j < i
                        /\ trace[j].ev = "force_reconnect"}) = 1
  /\ (/\ c_pc = "done"
      /\ c_out.kind = "raise"
      /\ ErrorIdx # {}
      /\ TransportFailure(trace[LastErrorBefore(Len(trace) + 1)].e)) =>
       /\ Count("attempt") = MaxRetries + 1
       /\ c_out.val = trace[LastErrorBefore(Len(trace) + 1)].e
       /\ c_out.val.at = MaxRetries

\* All attempts failed with a transport error, one of the reconnects failed
\* too, and the last attempt's exception reached the caller.
C3_Witness ==
  /\ c_pc = "done"
  /\ AllTransport
  /\ Count("error") = MaxRetries + 1
  /\ Count("force_reconnect") = MaxRetries
  /\ Count("reconnect_err") > 0
  /\ c_out.kind = "raise"
  /\ c_out.val.type = "ClosedResourceError"

\* C4: for every k in 0..max_retries, when the first k attempts fail with a
\* transport error and attempt k+1 succeeds, exactly k forced reconnects
\* happened, the result of attempt k+1 is returned and nothing is raised.
C4_TransportThenSuccess ==
  \A k \in 0..MaxRetries :
    (/\ AllTransport
     /\ Count("error") = k
     /\ trace # <<>>
     /\ trace[Len(trace)] = Event("ok", k, NoError)) =>
      /\ Count("force_reconnect") = k
      /\ Count("attempt") = k + 1
      /\ c_pc = "done"
      /\ c_out = [kind |-> "return", val |-> ResultAt(k)]

\* Three transport failures, three forced reconnects, then the 4th attempt
\* returns.
C4_Witness ==
  /\ c_pc = "done"
  /\ AllTransport
  /\ Count("error") = 3
  /\ Count("force_reconnect") = 3
  /\ c_out = [kind |-> "return", val |-> ResultAt(3)]

\* C5: an error that is neither a rate-limit signal nor a transport failure
\* ends the call at once: it is the last event of the call (no attempt, forced
\* reconnect or backoff sleep follows) and is itself what the call raises.
C5_OtherErrorPropagates ==
  \A i \in ErrorIdx :
    (~RateSignal(trace[i].e) /\ ~TransportFailure(trace[i].e)) =>
      /\ i = Len(trace)
      /\ c_pc = "done"
      /\ c_out = [kind |-> "raise", val |-> trace[i].e]

\* After one retried failure, the second attempt fails with an application
\* error, which is raised as it is.
C5_Witness ==
  /\ c_pc = "done"
  /\ Count("error") = 2
  /\ trace[Len(trace)].ev = "error"
  /\ trace[Len(trace)].e.type = "ValueError"
  /\ c_out = [kind |-> "raise", val |-> trace[Len(trace)].e]

\* ---- MasterAgent: what the history of one route_query / execute shows

\* The agent.run calls of the current entry-point call, in the order made.
Runs == SelectSeq(ma_trace, LAMBDA x : x.ev = "run")
\* The current call is a route_query whose router returned a selection.
ViaRouter == rq_sel # NoSelection
\* The (agent, tool) a router dict names is in the catalog.
InCatalog(d) ==
  \E i \in DOMAIN Catalog : Catalog[i].agent = GetAgent(d) /\ Catalog[i].tool = GetTool(d)
\* The parameter names the catalog declares for (a, t).
Declared(a, t) ==
  UNION {Catalog[i].parameters :
           i \in {j \in DOMAIN Catalog : Catalog[j].agent = a /\ Catalog[j].tool = t}}

\* C6: a plan with at least one step whose (agent, tool) is not in the catalog
\* has none of its steps executed, wherever the invalid step stands, and
\* route_query returns an error.
C6_InvalidPlanRunsNothing ==
  (/\ IsPlan(rq_sel)
   /\ \A i \in DOMAIN rq_sel.plan : {"agent", "tool"} \subseteq rq_sel.plan[i].keys
   /\ \E i \in DOMAIN rq_sel.plan : ~InCatalog(rq_sel.plan[i])) =>
    /\ Runs = <<>>
    /\ rq_pc = "done" => (rq_out.kind = "return" /\ rq_out.status = "error")

\* C7: a router step found in the catalog is executed with exactly those of
\* its arguments whose keys are declared parameters of the tool (values
\* unchanged); a step with only unknown arguments runs with an empty map.
C7_UnknownArgumentsPruned ==
  /\ ViaRouter =>
       \A i \in DOMAIN Runs :
         /\ InCatalog(Dict({"agent", "tool"}, Runs[i].step.agent, Runs[i].step.tool,
                           EmptyMap, <<>>))
         /\ DOMAIN Runs[i].step.arguments =
              DOMAIN Runs[i].orig \cap Declared(Runs[i].step.agent, Runs[i].step.tool)
         /\ \A k \in DOMAIN Runs[i].step.arguments :
              Runs[i].step.arguments[k] = Runs[i].orig[k]
  /\ (rq_pc = "done" /\ IsSingle(rq_sel) /\ InCatalog(rq_sel)) =>
       /\ Len(Runs) = 1
       /\ Runs[1].step.agent = rq_sel.agent
       /\ Runs[1].step.tool = rq_sel.tool
       /\ Runs[1].orig = GetArguments(rq_sel)
       /\ rq_out.steps = <<Runs[1].step>>

\* A step whose arguments mix a declared and an undeclared key ran with the
\* declared one only, after a step with only an undeclared key ran with none.
C7_Witness ==
  /\ ViaRouter
  /\ rq_pc = "done"
  /\ Len(Runs) = 2
  /\ DOMAIN Runs[1].orig = {"bogus"}
  /\ Runs[1].step.arguments = EmptyMap
  /\ DOMAIN Runs[2].orig = {"symbol", "bogus"}
  /\ DOMAIN Runs[2].step.arguments = {"symbol"}

\* The status of the k-th agent.run call as execute reports it.
StatusOfRun(k) ==
  IF ma_trace[2 * k].ev = "raise" THEN "error" ELSE GetStatus(ma_trace[2 * k].res)

Refused == rq_pc = "done" /\ ~ViaRouter /\ ex_step # NoStep /\ ma_trace = <<>>
\* The current call's agent.run raised and execute has handled it.
RunRaised ==
  /\ ma_trace # <<>>
  /\ ma_trace[Len(ma_trace)].ev = "raise"

\* C9: execute never raises; agent.run is called only on an initialized
\* dispatcher, for an agent that exists and a tool that agent declares; and an
\* execute that refuses the call, or whose agent.run raises, returns a result
\* with status 'error' and a message.
C9_ExecuteNeverRaises ==
  /\ ex_out.kind # "raise"
  /\ \A i \in DOMAIN Runs :
       /\ ma_initialized
       /\ Runs[i].step.agent \in DOMAIN AgentTools
       /\ \E j \in DOMAIN AgentTools[Runs[i].step.agent] :
            AgentTools[Runs[i].step.agent][j].name = Runs[i].step.tool
  /\ (Refused \/ RunRaised) =>
       /\ ex_out.kind = "return"
       /\ ex_out.res.status = "error"
       /\ {"status", "message"} \subseteq ex_out.res.keys
       /\ ex_out.res.message # ""

\* execute was called directly for a tool its agent declares, agent.run
\* raised, and the error result carries the exception's text.
C9_Witness ==
  /\ ~ViaRouter
  /\ RunRaised
  /\ ex_step.agent = "market_analysis"
  /\ ex_out = Outcome("return", ErrorResult("boom"))

\* C10: route_query never lets an exception escape: whatever the router
\* returned, its caller gets a result with a status.
C10_RouteQueryNeverRaises ==
  /\ rq_out.kind # "raise"
  /\ (rq_pc = "done" /\ rq_out.kind = "return") => rq_out.status # ""

\* C11: the compacted form of every result agent.run returned keeps status,
\* keeps message exactly when the result has one, carries the summary and no
\* data when the result has a summary, carries data only when the result has
\* data and no summary, and has no other field of the raw result.
C11_CompactPrefersSummary ==
  ViaRouter =>
    \A k \in DOMAIN rq_results :
      ma_trace[2 * k].ev = "ret" =>
        LET raw == ma_trace[2 * k].res
            out == rq_results[k] IN
          /\ "status" \in out.keys
          /\ out.status = GetStatus(raw)
          /\ ("message" \in out.keys) = ("message" \in raw.keys)
          /\ out.message = GetMessage(raw)
          /\ "summary" \in raw.keys =>
               /\ "summary" \in out.keys
               /\ out.summary = raw.summary
               /\ "data" \notin out.keys
               /\ out.data = ""
          /\ ("data" \in out.keys) = ("data" \in raw.keys /\ "summary" \notin raw.keys)
          /\ "data" \in out.keys => out.data = raw.data
          /\ out.keys \subseteq {"status", "message", "summary", "data"}

\* A plan of two steps ended: the first result had a summary and data, the
\* second a message, data and a session blob.
C11_Witness ==
  /\ rq_pc = "done"
  /\ Len(rq_results) = 2
  /\ {"summary", "data"} \subseteq ma_trace[2].res.keys
  /\ rq_results[1].keys = {"status", "summary"}
  /\ "session" \in ma_trace[4].res.keys
  /\ rq_results[2].keys = {"status", "message", "data"}

\* ---- KiteChatbot: what the history of the turns shows

\* The last n entries of a sequence (all of it when it is shorter).
LastN(q, n) == IF Len(q) > n THEN SubSeq(q, Len(q) - n + 1, Len(q)) ELSE q
\* The entries the current turn has appended to memory so far.
TurnEntries == SubSeq(cs_all, cs_base + 1, Len(cs_all))
\* The current turn ran to its normal end.
TurnEnded == cs_pc = "done" /\ cs_out = "end"
\* The current turn is for a message that takes the no-routing branch.
ShortCircuit == cs_turns > 0 /\ ~cs_msg.blank /\ ~NeedsRouting(cs_msg)
\* The current turn is for a message that is routed.
Routable == cs_turns > 0 /\ ~cs_msg.blank /\ NeedsRouting(cs_msg)
\* The route_query calls of the current turn.
RouteCalls == SelectSeq(cs_calls, LAMBDA c : c.op = "route")

\* C12: after any sequence of turns the memory holds at most max_turns
\* entries (20 in the code), and once more than that have been appended it is
\* exactly the most recently appended max_turns entries, oldest first.
C12_MemoryKeepsLatest ==
  /\ Len(memory) <= MemoryBound
  /\ memory = LastN(cs_all, MemoryBound)

\* More entries were appended than the bound, and the oldest one is gone.
C12_Witness ==
  /\ Len(cs_all) > MemoryBound
  /\ Len(memory) = MemoryBound
  /\ memory[1] = cs_all[Len(cs_all) - MemoryBound + 1]
  /\ memory[1] # cs_all[1]

\* C13: a turn for an acknowledgment or out-of-scope message makes no rewrite
\* and no route_query call, and when it completes it has appended exactly the
\* user entry with the message and then the assistant entry with the whole
\* reply it streamed.
C13_ShortCircuitNoDispatch ==
  ShortCircuit =>
    /\ \A i \in DOMAIN cs_calls : cs_calls[i].op = "llm"
    /\ cs_query = NoQuery
    /\ TurnEnded =>
         /\ TurnEntries = <<Entry("user", <<cs_msg.id>>), Entry("assistant", cs_yielded)>>
         /\ cs_yielded = cs_answer

\* A second turn, for an out-of-scope message, streamed two tokens and ended.
C13_Witness ==
  /\ ShortCircuit
  /\ ClassifyQuery(cs_msg) = "out_of_scope"
  /\ TurnEnded
  /\ cs_turns = 2
  /\ cs_yielded = <<"t1", "t2">>

\* C14: in a turn for a routed message route_query is called once, with the
\* search query (the rewritten one when the rewrite gave one, which happens
\* only after a rewrite call), and a completed turn has appended the original
\* message as the user entry and then the whole answer it yielded.
C14_RouterGetsRewritten ==
  Routable =>
    /\ Len(RouteCalls) <= 1
    /\ \A i \in DOMAIN RouteCalls : RouteCalls[i].q = cs_query
    /\ cs_query.rewritten =>
         /\ cs_calls[1] = Call("rewrite", Query(cs_msg.id, FALSE))
         /\ cs_calls[2] = Call("route", Query(cs_msg.id, TRUE))
    /\ TurnEnded =>
         /\ Len(RouteCalls) = 1
         /\ TurnEntries = <<Entry("user", <<cs_msg.id>>), Entry("assistant", cs_yielded)>>

\* A follow-up message was rewritten, routed with success, narrated in two
\* tokens, and the turn ended.
C14_Witness ==
  /\ Routable
  /\ cs_query.rewritten
  /\ TurnEnded
  /\ cs_branch = "narrate"
  /\ cs_yielded = <<"t1", "t2">>

\* C15: when the consumer is cancelled at a suspension point of a turn, the
\* memory after the cancellation equals the memory before the turn.
C15_CancelLeavesMemory ==
  (cs_pc = "done" /\ cs_out = "cancelled") => memory = cs_mem0

\* C16: no stage failure of a turn reaches the consumer as an exception: the
\* turn never ends by raising.
C16_NoExceptionToConsumer ==
  cs_out # "raise"

\* ---- KiteMCPClient: the session operations

\* The last session operation called.
LastOp == IF sess_ops = <<>> THEN "none" ELSE sess_ops[Len(sess_ops)]

C19_ClearAllOrNothing ==
  LastOp = "clear" =>
    \/ headers = DefaultHeaders /\ ~session_file.exists
    \/ headers = sess_pre.headers /\ session_file = sess_pre.file /\ session_file.exists

\* ------------------------------------------------------------- LoginAgent

\* finalize_session has returned.
Finalized == fin_pc = "idle" /\ fin_ret # "none"

\* C20: finalize_session returns success, stores the session in shared state
\* and saves it to disk only when the validity probe succeeded; when the
\* probe failed it returns the error, and shared state and the session file
\* are as they were when it was called.
C20_SuccessOnlyWhenProbeSucceeds ==
  Finalized =>
    IF fin_valid
      THEN fin_ret = "success" /\ shared_session # "absent"
      ELSE /\ fin_ret = "error"
           /\ shared_session = fin_pre.shared
           /\ session_file = fin_pre.file

\* ----------------------------------------------------- LoginAgent._login

\* _login has returned.
LoginDone == lg_pc = "done"

\* C21: _login always returns; when no check of the poll found the session
\* valid it returns only after the elapsed time reached the timeout, with
\* status "timeout", and shared state and the session file are as they were
\* when it started.
C21_PollTimesOut ==
  /\ <>LoginDone
  /\ [](LoginDone /\ lg_elapsed > 0 /\ ~lg_seen =>
          /\ lg_ret = "timeout"
          /\ lg_elapsed >= PollChecks
          /\ shared_session = lg_pre.shared
          /\ session_file = lg_pre.file)

\* The poll ran out without a valid check, over a connected client that has
\* a session object and a session file with a credential in it.
C21_Witness ==
  /\ LoginDone
  /\ ~lg_seen
  /\ lg_ret = "timeout"
  /\ kc_client = "connected"
  /\ session_file = FileOf(WithAuth("A"))

\* -------------------------------------- KiteMCPClient.validate_session

\* C22: validate_session never raises and returns a boolean: False when
\* call raised, whatever the error and also after the retries ran out, or
\* when a text of the result holds "please log in" in any letter case, and
\* True otherwise.
C22_ValidateReturnsBool ==
  vs_pc = "done" =>
    /\ vs_out.kind = "return"
    /\ vs_out.val \in BOOLEAN
    /\ vs_out.val =
         (/\ c_out.kind = "return"
          /\ \A i \in DOMAIN vs_res :
               vs_res[i].type = "text" => ~HasPleaseLogIn(Lower(vs_res[i].text)))

\* validate_session returned False after call gave up on rate-limit errors
\* with its typed error.
C22_Witness ==
  /\ vs_pc = "done"
  /\ vs_out = Returned(FALSE)
  /\ c_out.kind = "raise"
  /\ c_out.val = RateLimitExceeded
  /\ attempt = MaxRetries

\* ---- KiteMCPClient.call: admission before every remote invocation

\* The step in which call issues self._client.call_tool.
IssuesCallTool == c_pc # "calling" /\ c_pc' = "calling"
\* The step in which acquire() records a grant for the calling task.
GrantsCaller == rl_pc[Caller] # "granted" /\ rl_pc'[Caller] = "granted"

\* The current attempt has begun and has issued no call_tool yet.
AttemptUnserved ==
  \E i \in DOMAIN trace :
    /\ trace[i] = Event("attempt", attempt, NoError)
    /\ \A j \in DOMAIN trace : j > i => trace[j].ev \notin {"attempt", "call_tool"}

\* C23: call issues call_tool, in the first attempt and in every retry, only
\* with a grant that acquire() gave it in the same attempt, and the grant is
\* used up by that one invocation.
C23_AcquireBeforeEveryCallTool ==
  [][/\ IssuesCallTool =>
          /\ rl_pc[Caller] = "granted"
          /\ rl_pc'[Caller] = "idle"
          /\ AttemptUnserved
          /\ Count("call_tool")' = Count("call_tool") + 1
     /\ GrantsCaller =>
          /\ c_pc = "acquire"
          /\ AttemptUnserved
          /\ granted' = Remember(granted, now)]_vars

\* call_tool is issued in a retry, after the limiter made the task wait.
C23_Witness ==
  /\ c_pc = "calling"
  /\ attempt = MaxRetries
  /\ Count("sleep") = MaxRetries
  /\ Len(granted) > MaxRequests

\* ------------------------------------------- the streaming endpoints

\* C24: a streaming response of either conversational endpoint that is over
\* carries exactly one event with done = true, its last one, whether the
\* turn ended normally or failed at any stage; while the response is open no
\* event carries done = true.
C24_OneTerminalEvent ==
  /\ ep_pc = "closed" => ep_events # <<>>
  /\ ep_pc \in {"open", "closed"} =>
       \A i \in DOMAIN ep_events :
         ep_events[i].done <=> (ep_pc = "closed" /\ i = Len(ep_events))
  /\ ep_pc = "refused" => ep_events = <<>>

\* A market response that sent status and sources and then failed for want
\* of an LLM, after a portfolio response that broke after a token.
C24_Witness ==
  /\ ep_kind = "market"
  /\ ep_pc = "closed"
  /\ Len(ep_events) >= 3
  /\ ep_events[Len(ep_events)] = SSE("error", TRUE)
  /\ cs_out = "raise"
  /\ cs_yielded # <<>>

\* ---- MasterAgent.route_query: selections that map to no tool

\* route_query has returned after asking the router.
RoutedReturn == ma_router /\ rq_pc = "done" /\ rq_out.kind = "return"
\* The router returned nothing, or one step (no plan) whose agent or tool is
\* missing or not in the catalog.
Unmapped == ~IsPlan(rq_sel) /\ ~InCatalog(rq_sel)

\* C25: when the router returns nothing, or a single step whose agent or
\* tool is not in the catalog, route_query calls no agent and returns status
\* "error" with the guidance message.
C25_UnmappedFailsClosed ==
  RoutedReturn /\ Unmapped =>
    /\ ma_trace = <<>>
    /\ ex_step = NoStep
    /\ rq_out.status = "error"
    /\ rq_out.message = "I couldn't map that to a portfolio tool"
    /\ ~rq_out.hasData

\* The router named a tool that exists, for an agent that does not declare it.
C25_Witness ==
  /\ RoutedReturn
  /\ GetAgent(rq_sel) = "login"
  /\ GetTool(rq_sel) = "analyze_stock"
  /\ rq_out.status = "error"

\* ------------------------------------- a chat turn over the dispatcher

\* A tool that ran for the turn failed: agent.run raised or returned status
\* "error".
ToolFailed ==
  \E i \in DOMAIN ma_trace :
    \/ ma_trace[i].ev = "raise"
    \/ ma_trace[i].ev = "ret" /\ GetStatus(ma_trace[i].res) = "error"
\* A tool that ran for the turn reported that the user must log in.
ToolAsksLogin ==
  \E i \in DOMAIN ma_trace :
    ma_trace[i].ev = "ret" /\ GetMessage(ma_trace[i].res) = "Please log in"
\* The turn that went through the dispatcher is over.
RoutedTurnEnded ==
  ~cs_msg.blank /\ NeedsRouting(cs_msg) /\ rq_pc = "done" /\ cs_pc = "done"

\* C26: a turn in which a tool failed, as the single routed step or as a step
\* of a plan, yields one failure message and is not narrated; when the tool
\* asked for a login the message is the re-authentication prompt.
C26_ToolFailureReported ==
  RoutedTurnEnded /\ ToolFailed =>
    /\ cs_branch = "none"
    /\ Len(cs_yielded) = 1
    /\ cs_yielded # <<"pretty">>
    /\ ToolAsksLogin => cs_yielded = <<"Your Zerodha Kite session is not active.">>

\* ------------------------------------------- KiteChatbot._rewrite_query

\* The turn is for a routable message; its rewrite stage asked the LLM.
RoutableTurn == cs_pc # "idle" /\ ~cs_msg.blank /\ NeedsRouting(cs_msg)
RewriteCalled == \E i \in DOMAIN cs_calls : cs_calls[i].op = "rewrite"

\* C27 (as the code has it): for a routable message the rewrite LLM call is
\* made exactly when memory is not empty and the message has a follow-up cue
\* or at most 4 words; a message of more than 4 words without a cue, and
\* any message on an empty memory, goes to the router unchanged.
C27_RewriteUnlessLongWithoutCue ==
  RoutableTurn =>
    /\ RewriteCalled <=> (cs_mem0 # <<>> /\ (cs_msg.followup \/ cs_msg.words <= 4))
    /\ ~RewriteCalled =>
         \A i \in DOMAIN cs_calls :
           cs_calls[i].op = "route" => cs_calls[i].q = Query(cs_msg.id, FALSE)

\* A short message without a cue was rewritten and routed.
C27_Witness ==
  /\ RoutableTurn
  /\ cs_msg.id = "check margins"
  /\ RewriteCalled
  /\ \E i \in DOMAIN cs_calls : cs_calls[i] = Call("route", Query(cs_msg.id, TRUE))

\* C27 (as stated): the rewrite LLM call is made only for a message that has
\* a follow-up cue and is short as well, and only with a memory that is not
\* empty.
C27_RewriteOnlyCueAndShort ==
  \A i \in DOMAIN cs_calls :
    cs_calls[i].op = "rewrite" =>
      /\ cs_mem0 # <<>>
      /\ cs_msg.followup
      /\ cs_msg.words <= 4

\* How far one call has come: the attempt, and the place inside the attempt.
PcRank ==
  CASE c_pc = "try" -> 0
    [] c_pc = "handshake" -> IF c_ret = "try" THEN 1 ELSE 7
    [] c_pc = "acquire" -> 2
    [] c_pc = "calling" -> 3
    [] c_pc = "except" -> 4
    [] c_pc = "reconnect" -> 5
    [] c_pc = "fr_sleep" -> 6
    [] c_pc = "backoff" -> 8
    [] OTHER -> 9
CallRank == IF c_pc = "done" THEN 10 * (MaxRetries + 2) ELSE 10 * attempt + PcRank
\* The call failed with a rate-limit signal and with a transport failure.
MixedFailures ==
  /\ \E i \in ErrorIdx : RateSignal(trace[i].e)
  /\ \E i \in ErrorIdx : TransportFailure(trace[i].e)

\* C28: whatever mix of rate-limit and transport errors the attempts meet,
\* one call makes at most max_retries + 1 attempts (and call_tool requests),
\* every failure of either kind uses up one retry of the same budget, the
\* call ends by returning a result or raising, and every step of the call
\* brings it nearer to that end.
C28_SharedRetryBudget ==
  /\ [](/\ attempt <= MaxRetries
        /\ Count("attempt") <= MaxRetries + 1
        /\ Count("call_tool") <= MaxRetries + 1
        /\ Count("error") <= MaxRetries + 1
        /\ c_pc = "try" => Count("error") = attempt
        /\ c_pc = "backoff" => Count("error") = attempt + 1
        /\ Count("error") = MaxRetries + 1 => c_pc = "done"
        /\ c_pc = "done" => c_out.kind \in {"return", "raise"})
  /\ [][c_pc \notin {"idle", "done"} => CallRank' > CallRank]_<<c_pc, attempt, c_ret>>

\* Rate-limit and transport failures together used up the retries, and the
\* call raised after max_retries + 1 attempts.
C28_Witness ==
  /\ c_pc = "done"
  /\ MixedFailures
  /\ Count("attempt") = MaxRetries + 1
  /\ Count("error") = MaxRetries + 1
  /\ c_out.kind = "raise"

\* A transport marker: a transport word in the text or a transport type.
TransportMarker(e) ==
  \/ e.msg \cap {"broken", "connection", "closed", "resource", "anyio"} # {}
  \/ e.type \in {"ClosedResourceError", "RemoteProtocolError", "EndOfStream",
                 "ConnectionResetError"}
\* The except block is through with error event i.
Handled(i) == i < Len(trace) \/ c_pc = "done"
\* What the call did with error event i: the rate-limit handling (backoff
\* sleep at once, or the typed error with the retries used up), the
\* transport handling (forced reconnect, or the error itself with the retries
\* used up), or the raise of the error at once.
HandledAsRate(i) ==
  IF trace[i].n < MaxRetries
  THEN trace[i + 1] = Event("sleep", RetryDelay * (2 ^ trace[i].n), NoError)
  ELSE i = Len(trace) /\ c_out = [kind |-> "raise", val |-> RateLimitExceeded]
HandledAsTransport(i) ==
  IF trace[i].n < MaxRetries
  THEN trace[i + 1] = Event("force_reconnect", trace[i].n, NoError)
  ELSE i = Len(trace) /\ c_out = [kind |-> "raise", val |-> trace[i].e]
HandledAsOther(i) ==
  i = Len(trace) /\ c_out = [kind |-> "raise", val |-> trace[i].e]
BothMarkers(e) == RateSignal(e) /\ TransportMarker(e)

\* C29: the classification is ordered. An error with a rate-limit marker,
\* a transport marker in the same text included, gets the rate-limit
\* handling (backoff with no forced reconnect, the typed error on
\* exhaustion); an error with a transport marker only gets the transport
\* handling; any other error is raised at once. So each error is of one kind.
C29_ClassificationOrdered ==
  \A i \in ErrorIdx :
    Handled(i) =>
      LET e == trace[i].e IN
        /\ RateSignal(e) => HandledAsRate(i)
        /\ (~RateSignal(e) /\ TransportMarker(e)) => HandledAsTransport(i)
        /\ (~RateSignal(e) /\ ~TransportMarker(e)) => HandledAsOther(i)
        /\ BothMarkers(e) =>
             \A j \in DOMAIN trace :
               trace[j].ev = "force_reconnect" => trace[j].n # trace[i].n

\* An error with both markers was retried after a backoff with no reconnect,
\* and another one in the last attempt ended the call with the typed error.
C29_Witness ==
  /\ c_pc = "done"
  /\ c_out = [kind |-> "raise", val |-> RateLimitExceeded]
  /\ BothMarkers(trace[Len(trace)].e)
  /\ \E i \in ErrorIdx : i < Len(trace) /\ BothMarkers(trace[i].e)
  /\ Count("force_reconnect") = 0

\* Task t leaves the with block of acquire() in this step.
Checks(t) == rl_pc[t] = "locked" /\ rl_pc'[t] # "locked"

\* C30: acquire() has no failing outcome and returns in the end. A task that
\* finds the window full sleeps window - (now - oldest request); when it
\* checks again after that sleep and no other task was admitted meanwhile
\* (the oldest request is still the one it waited for), it is admitted; and
\* with the tasks scheduled fairly every task that entered is admitted.
C30_AcquireEventuallyReturns ==
  /\ [](\A t \in Tasks : rl_pc[t] \in {"idle", "enter", "locked", "sleep", "granted"})
  /\ [][\A t \in Tasks :
         /\ (Checks(t) /\ rl_pc'[t] = "sleep") =>
              /\ Len(requests') = MaxRequests
              /\ rl_wake'[t] - now = TimeWindow - (now - requests'[1])
         /\ (/\ Checks(t)
             /\ rl_wake[t] > 0
             /\ now >= rl_wake[t]
             /\ requests # <<>>
             /\ rl_wake[t] = requests[1] + TimeWindow) =>
              rl_pc'[t] = "granted"]_vars
  /\ \A t \in Tasks : (rl_pc[t] = "enter") ~> (rl_pc[t] = "granted")

\* Two tasks slept for a full window; one of them has been admitted after
\* its sleep while the other one is still asleep.
C30_Witness ==
  \E t, u \in Tasks :
    /\ t # u
    /\ rl_pc[t] = "granted"
    /\ rl_wake[t] > 0
    /\ now >= rl_wake[t]
    /\ rl_pc[u] = "sleep"
    /\ granted[Len(granted)] = now
    /\ Len(granted) = MaxRequests + 1

\* connect() gets past its `if self._client is None` in this step.
Establishes == c_pc # "handshake" /\ c_pc' = "handshake"

\* C31: the transport is made lazily and reused. connect() makes a transport
\* only when there is no client handle, and restores the session from disk in
\* the same step; a call that returned a result leaves a connected client
\* behind, and a connected client is given up only by a forced reconnect, so
\* calls that succeed one after the other establish the transport once.
C31_TransportLazyAndReused ==
  /\ [](c_pc = "done" /\ c_out.kind = "return" =>
          kc_client = "connected" /\ kc_transport = "set")
  /\ [][/\ Establishes =>
            /\ kc_client = "None"
            /\ kc_transport = "None"
            /\ kc_transport' = "set"
            /\ headers' = RestoreSession(headers, session_file)
        /\ (kc_client = "connected" /\ kc_client' # "connected") =>
             c_pc = "reconnect"]_vars

\* Two requests were admitted since the client was made, the later one by a
\* call that returned at its first attempt with no handshake of its own.
C31_Witness ==
  /\ c_pc = "done"
  /\ c_out.kind = "return"
  /\ trace = <<Event("attempt", 0, NoError), Event("call_tool", 0, NoError),
               Event("ok", 0, NoError)>>
  /\ Len(granted) = 2
  /\ kc_client = "connected"

\* C32: outside the handshake itself a client handle that is set belongs to
\* a client whose handshake completed, so call_tool is never issued on a
\* client that was never connected.
C32_HandleMeansConnected ==
  /\ c_pc # "handshake" => kc_client \in {"None", "connected"}
  /\ c_pc = "calling" => kc_client = "connected"

\* C33: whenever clear_session() runs while a call is suspended, the call
\* still finds a client handle when it comes to its request: it never fails
\* on a handle that is None.
C33_NoRequestOnNullHandle ==
  /\ c_exc.type # "AttributeError"
  /\ last_error.type # "AttributeError"

\* C34: with turns of two requests overlapped on the one KiteChatbot,
\* the entries ever remembered still form whole turns: every assistant entry
\* comes right after a user entry, and that user entry is of the same turn.
C34_OverlappedTurnsStayWhole ==
  \A i \in DOMAIN cs_all :
    cs_all[i].role = "assistant" =>
      /\ i > 1
      /\ cs_all[i - 1].role = "user"
      /\ (cs_all[i] = OtherAssistant) <=> (cs_all[i - 1] = OtherUser)

\* C35: when a check of the poll found the session valid, the last check
\* before the timeout included, _login went on to finalize_session and did
\* not return the timeout result.
C35_ValidPollNeverTimesOut ==
  (LoginDone /\ lg_seen) =>
    /\ lg_ret # "timeout"
    /\ fin_calls > 0

\* C36: once connect_portfolio or disconnect_portfolio wiped the session,
\* the headers hold no credential, the session file is gone and shared_state
\* has no session entry, and the status endpoint reports connected only
\* when its validity probe succeeded.
C36_WipeLeavesNoSession ==
  Wiped =>
    /\ headers = DefaultHeaders
    /\ ~session_file.exists
    /\ shared_session = "absent"
    /\ (ep_kind = "status" /\ ep_events[1].connected) => vs_out.val

\* ---- the market agent's MEMORY

\* The turns a session's history holds: the last three added, or all of
\* them while fewer were added.
TurnsAdded(mem) == NextId(mem) - 1
TurnsKept(mem) == IF TurnsAdded(mem) < 3 THEN TurnsAdded(mem) ELSE 3
\* The ordinal of the turn that position i of a history belongs to, when
\* the history holds the most recent turns in order.
TurnAt(mem, i) == TurnsAdded(mem) - TurnsKept(mem) + ((i + 1) \div 2)

\* C37: after any sequence of add_to_memory calls each session's history
\* holds at most 6 messages, and they are the user and assistant messages
\* of the 3 most recently added turns (of all turns while fewer than 3
\* were added), in the order they were added.
C37_MemoryKeepsLastThreeTurns ==
  \A s \in SessionIds :
    /\ Len(mk_memory[s]) <= 6
    /\ Len(mk_memory[s]) = 2 * TurnsKept(mk_memory[s])
    /\ \A i \in DOMAIN mk_memory[s] :
         /\ mk_memory[s][i].id = TurnAt(mk_memory[s], i)
         /\ mk_memory[s][i].role = (IF i % 2 = 1 THEN "human" ELSE "ai")
         /\ (i % 2 = 0) => mk_memory[s][i].n \in 1..MaxTokens

\* A session whose history was pruned twice while another session holds a
\* single turn.
C37_Witness ==
  \E s, o \in SessionIds :
    /\ TurnsAdded(mk_memory[s]) = MaxAdds
    /\ Len(mk_memory[s]) = 6
    /\ mk_memory[s][1] = HumanMessage(MaxAdds - 2)
    /\ Len(mk_memory[o]) = 2

\* ---- stream_analysis: a stream that breaks

\* The positions of the notices and of the streamed content in the events
\* of the response.
NoticeIdx == {i \in DOMAIN ep_events : ep_events[i] \in {Notice(t) : t \in NoticeTexts}}
ContentIdx == {i \in DOMAIN ep_events : ep_events[i] = SSE("content", FALSE)}
\* The LLM stream of the response broke.
StreamBroke == ep_kind = "market" /\ NoticeIdx # {}

\* C38: when the LLM stream of stream_analysis breaks after content, the
\* content already emitted stays in the response, exactly one interruption
\* notice follows it and then the done event ends the response; when it
\* breaks before any content the notice is the connectivity message and the
\* session memory stays as it was; the memory changes only in the save step
\* of a response with content, by the turn being added.
C38_BrokenStreamDegrades ==
  /\ [](StreamBroke =>
         /\ Cardinality(NoticeIdx) = 1
         /\ Cardinality(ContentIdx) = sa_n
         /\ sa_pc \in {"save", "over"}
         /\ \A i \in NoticeIdx :
              /\ ep_events[i] = (IF sa_n > 0 THEN Notice("interrupted")
                                            ELSE Notice("connectivity"))
              /\ \A j \in ContentIdx : j < i
              /\ sa_pc = "save" => (ep_pc = "open" /\ i = Len(ep_events))
              /\ sa_pc = "over" =>
                   /\ ep_pc = "closed"
                   /\ Len(ep_events) = i + 1
                   /\ ep_events[i + 1] = SSE("done", TRUE))
  /\ [][/\ (StreamBroke /\ \E i \in NoticeIdx : ep_events[i] = Notice("connectivity"))
            => mk_memory' = mk_memory
        /\ mk_memory' # mk_memory =>
             /\ sa_pc = "save"
             /\ sa_n > 0
             /\ \A s \in SessionIds \ {RequestSession} : mk_memory'[s] = mk_memory[s]
             /\ mk_memory'[RequestSession] =
                  mk_memory[RequestSession]
                    \o <<HumanMessage(NextId(mk_memory[RequestSession])),
                         AIMessage(NextId(mk_memory[RequestSession]), sa_n)>>]_vars

\* A response whose stream broke before any content is over, and the memory
\* still ends with the turn of an earlier response.
C38_Witness ==
  /\ StreamBroke
  /\ ep_pc = "closed"
  /\ sa_n = 0
  /\ Len(ep_events) >= 2
  /\ ep_events[Len(ep_events) - 1] = Notice("connectivity")
  /\ mk_memory[RequestSession] = <<HumanMessage(1), AIMessage(1, MaxTokens)>>

\* ---- RateLimiter: what the lock covers

\* Task t sleeps in acquire().
Asleep(t) == rl_pc[t] = "sleep"
\* Task u is inside the with block, about to check and record.
InBlock(u) == rl_pc[u] = "locked" /\ lock = u

\* C39: the lock of the RateLimiter is held only inside the with block that
\* checks and records: the holder is always a task inside the block, no
\* sleeping task holds it, it is released by the step that leaves the block,
\* and a task that waits to enter the block while another sleeps finds the
\* lock free or held by a task inside the block.
C39_LockOnlyForBookkeeping ==
  /\ [](/\ lock # 0 => InBlock(lock)
        /\ \A t \in Tasks : Asleep(t) => lock # t
        /\ \A t, u \in Tasks :
             (Asleep(t) /\ rl_pc[u] = "enter") => (lock = 0 \/ (lock # t /\ InBlock(lock))))
  /\ [][\A t \in Tasks :
          /\ (InBlock(t) /\ rl_pc'[t] # "locked") => lock' = 0
          /\ (lock # t /\ lock' = t) => (lock = 0 /\ rl_pc[t] = "enter")]_vars

\* One task is inside the block doing its admission check while another
\* sleeps, its time not yet come.
C39_Witness ==
  \E t, u \in Tasks :
    /\ t # u
    /\ Waiting(t)
    /\ InBlock(u)
    /\ ~UnderLimit(Prune(requests, now))

====
